---- MODULE Spec2Model ----
(***************************************************************************)
(* Model of the paper-trading policy engine and the per-market position    *)
(* lifecycle of EDGEBOTPRO (paperTradeMonitor, PolicyEngine).              *)
(*                                                                         *)
(* Fixed-point units used for the program's floating-point quantities:     *)
(*   time    whole seconds since the Unix epoch (the code uses ms)         *)
(*   money   cents                 (MoneyScale units per dollar)           *)
(*   price   1/10000               (PriceScale units per 1.0)              *)
(*   shares  1/100 share           (ShareScale units per share)            *)
(*   random  per-mille             (a draw r stands for Math.random() =    *)
(*                                  r / 1000)                              *)
(***************************************************************************)
EXTENDS Integers, Sequences, FiniteSets, TLC

\* ------------------------------------------------------------------ units
MoneyScale == 10^2
PriceScale == 10^4
ShareScale == 10^2
RandScale  == 10^3

Min(a, b) == IF a < b THEN a ELSE b
Max(a, b) == IF a > b THEN a ELSE b
Abs(a)    == IF a < 0 THEN 0 - a ELSE a
CeilDiv(a, b) == (a + b - 1) \div b

\* --------------------------------------------------------- model bounds
\* First instant of the modelled run (seconds since the Unix epoch).
Epoch == 1700000000
\* The run is observed for MaxTime seconds.
MaxTime == 300
\* Number of times the external sources may change what they report.
MaxEnvChanges == 3

\* Market identifiers (conditionIds): "t1" is reported by the market tracker,
\* "p1" is found by the proactive slug search.
TrackerIds   == {"t1"}
ProactiveIds == {"p1"}
MarketIds    == TrackerIds \cup ProactiveIds

\* Expiry timestamps the metadata sources may report (0 = not known).
EndDates == {Epoch + 210}
\* Time the loop is suspended in its inter-iteration delay plus the
\* iteration's network waits (at least POLL_INTERVAL_MS).
SleepSteps == {50}
\* Mid prices <<UP, DOWN>> the order book may return.
PricePairs == { <<9500, 500>>, <<400, 9600>>, <<9600, 1000>> }
\* Values Math.random() may return (per-mille), by the place of the call:
\* the session variance, the both-sides and prefer-UP decisions, the share
\* option and its jitter, the gap tier and the gap within the tier.
SessionDraws == {500}
BranchDraws  == {0, 999}
IndexDraws   == {300}
JitterDraws  == {500}
GapRollDraws == {999}
GapDraws     == {0}

\* ------------------------------------------------------ program constants
PAPER_STARTING_CAPITAL   == 2000      \* env PAPER_STARTING_CAPITAL, here $20
PAPER_BTC_MAX_PER_MARKET == 240000    \* $2400
PAPER_ETH_MAX_PER_MARKET == 180000    \* $1800
TARGET_SHARE_AMOUNTS == <<5, 16, 28, 1, 2, 14, 10, 3, 22, 15, 6, 4, 8, 12, 7>>
\* SHARE_WEIGHTS in tenths
SHARE_WEIGHTS == <<120, 110, 100, 50, 45, 55, 50, 40, 40, 40, 35, 35, 30, 30, 30>>
MIN_SHARES == 50                      \* 0.5 share
POLL_INTERVAL_MS == 1                 \* 1000 ms
UP_BIAS == 5070                       \* 0.507, in 1/10000
DIRECTION_VARIANCE == 200             \* 0.02, in 1/10000
MOMENTUM_CHASE_FACTOR == 6            \* 0.6, in tenths
PRICE_THRESHOLD_FOR_CHASE == 1000     \* 0.10
REBALANCE_CHECK_INTERVAL_MS == 10     \* 10000 ms
EXPIRATION_WINDOW_MS == 120           \* 2 * 60 * 1000 ms
ARB_MIN_TIME_MS == 10                 \* literal 10000 ms in executeArbitrageTrade
CLEAR_OUTCOME_THRESHOLD == 9500       \* 0.95
MAX_LOSER_PRICE == 500                \* 0.05
MIN_LOSER_PRICE == 10                 \* 0.001
SETTLE_WIN_PRICE == 9500              \* literal 0.95 in settlePositions
PAPER_MIN_TRADE == 50                 \* $0.50
PAPER_MAX_TRADE == 1500               \* $15
EXPIRED_THRESHOLD_MS == 60            \* 60000 ms
CLEANUP_INTERVAL_MS == 30             \* 30000 ms
PURGE_DELAY_MS == 5                   \* setTimeout(..., 5000)
CATCH_DELAY_MS == 2                   \* setTimeout(resolve, 2000) of the catch block
MIN_POSITION_SIZE == 1000             \* literal $10 in buildPositionIncrementally
MS_THRESHOLD == 10000000              \* literal 10000000000 ms
CYCLE_BUCKET_MS == 60                 \* literal 60000 ms
MAX_PROCESSED_CYCLES == 1000
KEEP_PROCESSED_CYCLES == 500

\* ------------------------------------------------------------------ state
VARIABLES
    now,                    \* Date.now(), whole seconds
    isRunning,              \* let isRunning
    pc,                     \* position of paperTradeMonitor's loop
    loopNow,                \* the iteration's const now
    lastCleanupTime,        \* let lastCleanupTime
    todo,                   \* markets the for-loop of this iteration has not visited
    currentCapital,         \* let currentCapital
    totalPnL,               \* let totalPnL
    totalTrades,            \* let totalTrades
    totalCycles,            \* let totalCycles
    discoveredMarkets,      \* Map conditionId -> market
    positions,              \* Map conditionId -> MarketPosition
    buildingPositions,      \* Map conditionId -> PositionBuildState
    processedCycles,        \* Set of cycle keys, in insertion order
    proactivelyDiscoveredIds,
    fetchedSlugs,
    trackerMarkets,         \* marketTracker.getMarkets(), an external collaborator
    timers,                 \* pending setTimeout callbacks of settlePosition
    arbLog,                 \* logPaperTrade events of executeArbitrageTrade
    clearSeen,              \* history: held positions whose market has shown a
                            \* clear winner since the position was finalized
    envChanges,             \* changes of the external sources so far
    probe                   \* inputs and result of the PolicyEngine call under study

loopVars   == <<now, isRunning, pc, loopNow, lastCleanupTime, todo>>
moneyVars  == <<currentCapital, totalPnL, totalTrades, totalCycles>>
marketVars == <<discoveredMarkets, proactivelyDiscoveredIds, fetchedSlugs, trackerMarkets, envChanges>>
posVars    == <<positions, buildingPositions, processedCycles, timers, arbLog, clearSeen>>
vars       == <<loopVars, moneyVars, marketVars, posVars, probe>>

\* A Map as a function on the set of its keys.
EmptyMap == [k \in {} |-> 0]
Has(map, k) == k \in DOMAIN map
Put(map, k, v) == [x \in DOMAIN map \cup {k} |-> IF x = k THEN v ELSE map[x]]
Delete(map, k) == [x \in DOMAIN map \ {k} |-> map[x]]

InSeq(s, x) == \E i \in 1..Len(s) : s[i] = x

\* marketKey of a conditionId (getMarketKey of the title).
MarketKeyOf(id) == IF id \in TrackerIds THEN "BTC-UpDown-15" ELSE "ETH-UpDown-15"

\* "If endDate is less than 10000000000, it's likely in seconds, convert to ms"
EndDateMs(endDate) == IF endDate < MS_THRESHOLD THEN endDate * 1000 ELSE endDate

\* `${position.conditionId}:${Math.floor(position.endDate / 60000)}`
CycleKey(conditionId, endDate) == <<conditionId, endDate \div CYCLE_BUCKET_MS>>

\* shares = dollars / price
SharesFor(cost, price) == (cost * PriceScale) \div price
\* dollars = shares * price
CostOf(shares, price) == (shares * price) \div PriceScale

\* ------------------------------------------------------- finalizePosition
\* The MarketPosition record with each side's shares computed from the other
\* side's average price
MarketPosition_CrossedAverages(conditionId, market, buildState) ==
    [ conditionId |-> conditionId,
      endDate |-> market.endDate,
      sharesUp |-> IF buildState.avgPriceDown > 0
                   THEN SharesFor(buildState.investedUp, buildState.avgPriceDown) ELSE 0,
      sharesDown |-> IF buildState.avgPriceUp > 0
                     THEN SharesFor(buildState.investedDown, buildState.avgPriceUp) ELSE 0,
      costUp |-> buildState.investedUp,
      costDown |-> buildState.investedDown,
      arbSharesUp |-> 0, arbSharesDown |-> 0, arbCostUp |-> 0, arbCostDown |-> 0,
      currentPriceUp |-> market.priceUp,
      currentPriceDown |-> market.priceDown,
      hasSplitPosition |-> TRUE,
      hasArbitragePosition |-> FALSE,
      isSettled |-> FALSE,
      settlementPnL |-> 0 ]

\* The MarketPosition record finalizePosition builds from a BuildState.
MarketPosition(conditionId, market, buildState) ==
    [ conditionId |-> conditionId,
      endDate |-> market.endDate,
      sharesUp |-> IF buildState.avgPriceUp > 0
                   THEN SharesFor(buildState.investedUp, buildState.avgPriceUp) ELSE 0,
      sharesDown |-> IF buildState.avgPriceDown > 0
                     THEN SharesFor(buildState.investedDown, buildState.avgPriceDown) ELSE 0,
      costUp |-> buildState.investedUp,
      costDown |-> buildState.investedDown,
      arbSharesUp |-> 0, arbSharesDown |-> 0, arbCostUp |-> 0, arbCostDown |-> 0,
      currentPriceUp |-> market.priceUp,
      currentPriceDown |-> market.priceDown,
      hasSplitPosition |-> TRUE,
      hasArbitragePosition |-> FALSE,
      isSettled |-> FALSE,
      settlementPnL |-> 0 ]

\* finalizePosition without its closing buildingPositions.delete(positionKey)
finalizePosition_KeepsBuildState(conditionId, market, buildState, held, building) ==
    [ positions |-> Put(held, conditionId, MarketPosition(conditionId, market, buildState)),
      buildingPositions |-> building ]

\* positions.set(positionKey, position); buildingPositions.delete(positionKey)
finalizePosition(conditionId, market, buildState, held, building) ==
    [ positions |-> Put(held, conditionId, MarketPosition(conditionId, market, buildState)),
      buildingPositions |-> Delete(building, conditionId) ]

\* -------------------------------------------------- executeArbitrageTrade
\* The winner the price pair shows, "NONE" when the outcome is not clear.
ClearWinner(priceUp, priceDown) ==
    IF priceUp >= CLEAR_OUTCOME_THRESHOLD /\ priceDown <= MAX_LOSER_PRICE
                                          /\ priceDown >= MIN_LOSER_PRICE
    THEN "UP"
    ELSE IF priceDown >= CLEAR_OUTCOME_THRESHOLD /\ priceUp <= MAX_LOSER_PRICE
                                                 /\ priceUp >= MIN_LOSER_PRICE
         THEN "DOWN"
         ELSE "NONE"

\* The price the purchase is made at, taken from the winning side
LoserPrice_OfWinner(winner, priceUp, priceDown) ==
    IF winner = "UP" THEN priceUp ELSE priceDown

\* loserPrice = priceDown when UP wins, priceUp when DOWN wins
LoserPrice(winner, priceUp, priceDown) ==
    IF winner = "UP" THEN priceDown ELSE priceUp

\* The window guard without its lower bound
ArbTooEarlyOrLate_NoLowerBound(position, t) ==
    EndDateMs(position.endDate) - t > EXPIRATION_WINDOW_MS

\* The guard that ends executeArbitrageTrade before it looks at the prices.
ArbTooEarlyOrLate(position, t) ==
    LET timeToExpiration == EndDateMs(position.endDate) - t
    IN  timeToExpiration > EXPIRATION_WINDOW_MS \/ timeToExpiration < ARB_MIN_TIME_MS

\* The cycle-key lookup looking into an empty set
CycleProcessed_Never(cycles, cycleKey) == FALSE

\* processedCycles.has(cycleKey)
CycleProcessed(cycles, cycleKey) == InSeq(cycles, cycleKey)

\* executeArbitrageTrade buying for PAPER_MAX_TRADE whatever the pool holds
executeArbitrageTrade_AlwaysMaxTrade(position, market, capital, cycles, trades, t) ==
    LET unchanged == [ position |-> position, currentCapital |-> capital,
                       processedCycles |-> cycles, totalTrades |-> trades,
                       logged |-> << >> ]
        winner == ClearWinner(market.priceUp, market.priceDown)
        loserPrice == LoserPrice(winner, market.priceUp, market.priceDown)
        cycleKey == CycleKey(position.conditionId, position.endDate)
        availableCapital == Min(capital, PAPER_MAX_TRADE)
        arbShares == SharesFor(availableCapital, loserPrice)
        arbCost == PAPER_MAX_TRADE
    IN  IF position.hasArbitragePosition \/ position.isSettled THEN unchanged
        ELSE IF ArbTooEarlyOrLate(position, t) THEN unchanged
        ELSE IF winner = "NONE" THEN unchanged
        ELSE IF CycleProcessed(cycles, cycleKey) THEN unchanged
        ELSE IF availableCapital < PAPER_MIN_TRADE
             THEN [unchanged EXCEPT !.processedCycles = Append(cycles, cycleKey)]
        ELSE [ position |->
                 IF winner = "UP"
                 THEN [position EXCEPT !.arbSharesDown = @ + arbShares,
                                       !.arbCostDown = @ + arbCost,
                                       !.hasArbitragePosition = TRUE]
                 ELSE [position EXCEPT !.arbSharesUp = @ + arbShares,
                                       !.arbCostUp = @ + arbCost,
                                       !.hasArbitragePosition = TRUE],
               currentCapital |-> capital - arbCost,
               processedCycles |-> Append(cycles, cycleKey),
               totalTrades |-> trades + 1,
               logged |-> << [ conditionId |-> position.conditionId,
                               cycleKey |-> cycleKey,
                               side |-> IF winner = "UP" THEN "DOWN" ELSE "UP",
                               shares |-> arbShares,
                               cost |-> arbCost,
                               price |-> loserPrice ] >> ]

\* The effect of one call: the position, the capital pool, the cycle keys, the
\* trade counter and the trade events logged.
executeArbitrageTrade(position, market, capital, cycles, trades, t) ==
    LET unchanged == [ position |-> position, currentCapital |-> capital,
                       processedCycles |-> cycles, totalTrades |-> trades,
                       logged |-> << >> ]
        winner == ClearWinner(market.priceUp, market.priceDown)
        loserPrice == LoserPrice(winner, market.priceUp, market.priceDown)
        cycleKey == CycleKey(position.conditionId, position.endDate)
        availableCapital == Min(capital, PAPER_MAX_TRADE)
        arbShares == SharesFor(availableCapital, loserPrice)
        arbCost == availableCapital
    IN  IF position.hasArbitragePosition \/ position.isSettled THEN unchanged
        ELSE IF ArbTooEarlyOrLate(position, t) THEN unchanged
        ELSE IF winner = "NONE" THEN unchanged
        ELSE IF CycleProcessed(cycles, cycleKey) THEN unchanged
        ELSE IF availableCapital < PAPER_MIN_TRADE
             THEN [unchanged EXCEPT !.processedCycles = Append(cycles, cycleKey)]
        ELSE [ position |->
                 IF winner = "UP"
                 THEN [position EXCEPT !.arbSharesDown = @ + arbShares,
                                       !.arbCostDown = @ + arbCost,
                                       !.hasArbitragePosition = TRUE]
                 ELSE [position EXCEPT !.arbSharesUp = @ + arbShares,
                                       !.arbCostUp = @ + arbCost,
                                       !.hasArbitragePosition = TRUE],
               currentCapital |-> capital - arbCost,
               processedCycles |-> Append(cycles, cycleKey),
               totalTrades |-> trades + 1,
               logged |-> << [ conditionId |-> position.conditionId,
                               cycleKey |-> cycleKey,
                               side |-> IF winner = "UP" THEN "DOWN" ELSE "UP",
                               shares |-> arbShares,
                               cost |-> arbCost,
                               price |-> loserPrice ] >> ]

\* --------------------------------------------------------- settlePosition
TotalCost(position) ==
    position.costUp + position.costDown + position.arbCostUp + position.arbCostDown

\* settlePosition without its first line, if (position.isSettled) return
settlePosition_NoSettledGuard(position, upWon, downWon) ==
    LET totalCost == TotalCost(position)
        finalValue == IF upWon THEN position.sharesUp + position.arbSharesUp
                      ELSE IF downWon THEN position.sharesDown + position.arbSharesDown
                      ELSE totalCost
        pnl == finalValue - totalCost
    IN  [ position |-> [position EXCEPT !.isSettled = TRUE, !.settlementPnL = pnl],
          value |-> finalValue, pnl |-> pnl, cycles |-> 1, timer |-> TRUE ]

\* settlePosition with finalValue left at its initial 0 on an unclear outcome
settlePosition_NoCollateralBack(position, upWon, downWon) ==
    LET totalCost == TotalCost(position)
        finalValue == IF upWon THEN position.sharesUp + position.arbSharesUp
                      ELSE IF downWon THEN position.sharesDown + position.arbSharesDown
                      ELSE 0
        pnl == finalValue - totalCost
    IN  IF position.isSettled
        THEN [ position |-> position, value |-> 0, pnl |-> 0, cycles |-> 0,
               timer |-> FALSE ]
        ELSE [ position |-> [position EXCEPT !.isSettled = TRUE,
                                             !.settlementPnL = pnl],
               value |-> finalValue, pnl |-> pnl, cycles |-> 1, timer |-> TRUE ]

\* settlePosition counting only the build-phase shares of the winning side
settlePosition_NoArbShares(position, upWon, downWon) ==
    LET totalCost == TotalCost(position)
        finalValue == IF upWon THEN position.sharesUp
                      ELSE IF downWon THEN position.sharesDown
                      ELSE totalCost
        pnl == finalValue - totalCost
    IN  IF position.isSettled
        THEN [ position |-> position, value |-> 0, pnl |-> 0, cycles |-> 0,
               timer |-> FALSE ]
        ELSE [ position |-> [position EXCEPT !.isSettled = TRUE,
                                             !.settlementPnL = pnl],
               value |-> finalValue, pnl |-> pnl, cycles |-> 1, timer |-> TRUE ]

\* The effect of one call: the position, what is added to the capital pool, to
\* the realized P&L and to the cycle counter, and whether a purge timer is set.
settlePosition(position, upWon, downWon) ==
    LET totalCost == TotalCost(position)
        finalValue == IF upWon THEN position.sharesUp + position.arbSharesUp
                      ELSE IF downWon THEN position.sharesDown + position.arbSharesDown
                      ELSE totalCost
        pnl == finalValue - totalCost
    IN  IF position.isSettled
        THEN [ position |-> position, value |-> 0, pnl |-> 0, cycles |-> 0,
               timer |-> FALSE ]
        ELSE [ position |-> [position EXCEPT !.isSettled = TRUE,
                                             !.settlementPnL = pnl],
               value |-> finalValue, pnl |-> pnl, cycles |-> 1, timer |-> TRUE ]

\* ---------------------------------------------- buildPositionIncrementally
RECURSIVE PickShareIndex(_, _)
\* The for-loop of selectTargetShares: rand in 1/10000 of a weight unit
\* (SHARE_WEIGHTS are tenths, the draw is per-mille); 0 = loop ran out.
PickShareIndex(i, rand) ==
    IF i > Len(TARGET_SHARE_AMOUNTS) THEN 0
    ELSE LET rest == rand - SHARE_WEIGHTS[i] * RandScale
         IN  IF rest <= 0 THEN i ELSE PickShareIndex(i + 1, rest)

RECURSIVE SumSeq(_)
SumSeq(s) == IF s = << >> THEN 0 ELSE Head(s) + SumSeq(Tail(s))

\* selectTargetShares with its two Math.random() draws; result in 1/100 share.
selectTargetShares(rIdx, rVar) ==
    LET totalWeight == SumSeq(SHARE_WEIGHTS)
        i == PickShareIndex(1, rIdx * totalWeight)
        variance == 900 + (rVar * 200) \div RandScale      \* 0.9 + random * 0.2
    IN  IF i = 0 THEN 12 * ShareScale
        ELSE (TARGET_SHARE_AMOUNTS[i] * ShareScale * variance) \div 1000

\* x * f / 1000 rounded toward zero, for a signed x
ScaleMille(x, f) == IF x >= 0 THEN (x * f) \div 1000 ELSE 0 - (((0 - x) * f) \div 1000)

\* Math.min(maxPerMarket, currentCapital * 0.7)
PositionSize(conditionId, capital) ==
    LET isBTC == MarketKeyOf(conditionId) = "BTC-UpDown-15"
        maxPerMarket == IF isBTC THEN PAPER_BTC_MAX_PER_MARKET ELSE PAPER_ETH_MAX_PER_MARKET
    IN  Min(maxPerMarket, (capital * 70) \div 100)

\* The BuildState a first tick creates for the session-variance draw rSession.
NewBuildState(conditionId, market, capital, t, rSession) ==
    LET positionSize == PositionSize(conditionId, capital)
        sessionVariance == ScaleMille((rSession - 500) * 2, DIRECTION_VARIANCE)
        upRatio == Max(4900, Min(5200, UP_BIAS + sessionVariance))
        downRatio == PriceScale - upRatio
    IN  [ targetUp |-> (positionSize * upRatio) \div PriceScale,
          targetDown |-> (positionSize * downRatio) \div PriceScale,
          investedUp |-> 0, investedDown |-> 0,
          lastTradeTime |-> 0,
          nextTradeTime |-> t,
          tradeCount |-> 0,
          avgPriceUp |-> 0, avgPriceDown |-> 0,
          initialPriceUp |-> market.priceUp,
          initialPriceDown |-> market.priceDown,
          lastRebalanceTime |-> t,
          momentumBias |-> 0 ]

UpComplete(bs)   == bs.investedUp * 100 >= bs.targetUp * 98
DownComplete(bs) == bs.investedDown * 100 >= bs.targetDown * 98

\* Both sides complete and the targets left as they are
GrowTargets_Never(bs) == bs

\* "Keep trading like the watcher": both sides complete raises both targets.
GrowTargets(bs) ==
    IF UpComplete(bs) /\ DownComplete(bs)
    THEN [bs EXCEPT !.targetUp = (@ * 11) \div 10, !.targetDown = (@ * 11) \div 10]
    ELSE bs

\* Momentum bias in per-mille, recomputed every REBALANCE_CHECK_INTERVAL_MS.
Rebalance(bs, market, t) ==
    LET priceChangeUp == market.priceUp - bs.initialPriceUp
        chase == IF priceChangeUp >= 0 THEN (priceChangeUp * MOMENTUM_CHASE_FACTOR * 2) \div 100
                 ELSE 0 - (((0 - priceChangeUp) * MOMENTUM_CHASE_FACTOR * 2) \div 100)
    IN  IF t - bs.lastRebalanceTime >= REBALANCE_CHECK_INTERVAL_MS
        THEN [bs EXCEPT
                !.momentumBias =
                    IF Abs(priceChangeUp) >= PRICE_THRESHOLD_FOR_CHASE
                    THEN IF priceChangeUp > 0 THEN Min(1000, chase) ELSE Max(-1000, chase)
                    ELSE @,
                !.lastRebalanceTime = t]
        ELSE bs

\* The sizes one tick may propose: <<sharesUp, sharesDown, tradeUp, tradeDown>>
\* for every outcome of the tick's Math.random() draws.  upComplete and
\* downComplete are the flags computed before the targets were raised.
Proposals(bs, market, upComplete, downComplete) ==
    LET sizes == { selectTargetShares(i, v) : i \in IndexDraws, v \in JitterDraws }
        bias == bs.momentumBias
        upProgress == (bs.investedUp * 10000) \div bs.targetUp
        downProgress == (bs.investedDown * 10000) \div bs.targetDown
        biasedUp(su) == IF bias > 100 THEN (su * (1000 + (bias * 3) \div 10)) \div 1000
                        ELSE IF bias < -100 THEN (su * (1000 - (Abs(bias) * 2) \div 10)) \div 1000
                        ELSE su
        biasedDown(sd) == IF bias > 100 THEN (sd * (1000 - (bias * 2) \div 10)) \div 1000
                          ELSE IF bias < -100 THEN (sd * (1000 + (Abs(bias) * 3) \div 10)) \div 1000
                          ELSE sd
        catchUp == IF Abs(upProgress - downProgress) >= 500
                   THEN IF upProgress < downProgress THEN 100 ELSE -100
                   ELSE 0
        upProbability == Max(300, Min(700, 500 + ScaleMille(bias, 200) + catchUp))
        onlyUp == { <<s, 0, CostOf(s, market.priceUp), 0>> : s \in sizes }
        onlyDown == { <<0, s, 0, CostOf(s, market.priceDown)>> : s \in sizes }
        both == { <<biasedUp(su), biasedDown(sd),
                    CostOf(biasedUp(su), market.priceUp),
                    CostOf(biasedDown(sd), market.priceDown)>> : su \in sizes, sd \in sizes }
        single == (IF \E r \in BranchDraws : r < upProbability THEN onlyUp ELSE {})
                  \cup (IF \E r \in BranchDraws : ~(r < upProbability) THEN onlyDown ELSE {})
    IN  IF ~upComplete /\ ~downComplete
        THEN (IF \E r \in BranchDraws : r < 320 THEN both ELSE {})
             \cup (IF \E r \in BranchDraws : ~(r < 320) THEN single ELSE {})
        ELSE IF ~upComplete THEN onlyUp
        ELSE IF ~downComplete THEN onlyDown
        ELSE { <<0, 0, 0, 0>> }

\* A proposal taken as it is, capped to nothing
CapTrades_Uncapped(bs, market, capital, prop) ==
    [ sharesUp |-> prop[1], sharesDown |-> prop[2],
      tradeUp |-> prop[3], tradeDown |-> prop[4] ]

\* Cap a proposal to the remaining targets and to the available capital.
CapTrades(bs, market, capital, prop) ==
    LET remainingUp == bs.targetUp - bs.investedUp
        remainingDown == bs.targetDown - bs.investedDown
        tradeUp1 == IF prop[3] > remainingUp THEN remainingUp ELSE prop[3]
        sharesUp1 == IF prop[3] > remainingUp THEN SharesFor(tradeUp1, market.priceUp) ELSE prop[1]
        tradeDown1 == IF prop[4] > remainingDown THEN remainingDown ELSE prop[4]
        sharesDown1 == IF prop[4] > remainingDown THEN SharesFor(tradeDown1, market.priceDown) ELSE prop[2]
        over == tradeUp1 + tradeDown1 > capital
        tradeUp2 == IF over THEN (tradeUp1 * capital) \div (tradeUp1 + tradeDown1) ELSE tradeUp1
        tradeDown2 == IF over THEN (tradeDown1 * capital) \div (tradeUp1 + tradeDown1) ELSE tradeDown1
    IN  [ sharesUp |-> IF over THEN SharesFor(tradeUp2, market.priceUp) ELSE sharesUp1,
          sharesDown |-> IF over THEN SharesFor(tradeDown2, market.priceDown) ELSE sharesDown1,
          tradeUp |-> tradeUp2,
          tradeDown |-> tradeDown2 ]

\* Execute the UP trade, then the DOWN trade, of a capped proposal.
ExecuteTrades(bs, market, capital, trades, tr) ==
    LET doUp == tr.sharesUp >= MIN_SHARES /\ tr.tradeUp > 0 /\ capital >= tr.tradeUp
        totalInvestedUp == bs.investedUp + tr.tradeUp
        bs1 == IF doUp
               THEN [bs EXCEPT !.avgPriceUp = (@ * bs.investedUp + market.priceUp * tr.tradeUp)
                                                \div totalInvestedUp,
                               !.investedUp = totalInvestedUp,
                               !.tradeCount = @ + 1]
               ELSE bs
        capital1 == IF doUp THEN capital - tr.tradeUp ELSE capital
        trades1 == IF doUp THEN trades + 1 ELSE trades
        doDown == tr.sharesDown >= MIN_SHARES /\ tr.tradeDown > 0 /\ capital1 >= tr.tradeDown
        totalInvestedDown == bs1.investedDown + tr.tradeDown
        bs2 == IF doDown
               THEN [bs1 EXCEPT !.avgPriceDown = (@ * bs1.investedDown + market.priceDown * tr.tradeDown)
                                                  \div totalInvestedDown,
                                !.investedDown = totalInvestedDown,
                                !.tradeCount = @ + 1]
               ELSE bs1
    IN  [ buildState |-> bs2,
          currentCapital |-> IF doDown THEN capital1 - tr.tradeDown ELSE capital1,
          totalTrades |-> IF doDown THEN trades1 + 1 ELSE trades1 ]

\* The UP trade on its own, lines 1288-1316, up to its await logPaperTrade;
\* traded says whether the trade, and so the await, took place.
ExecuteUp(bs, market, capital, trades, tr) ==
    LET doUp == tr.sharesUp >= MIN_SHARES /\ tr.tradeUp > 0 /\ capital >= tr.tradeUp
        totalInvestedUp == bs.investedUp + tr.tradeUp
    IN  IF doUp
        THEN [ buildState |->
                   [bs EXCEPT !.avgPriceUp = (@ * bs.investedUp + market.priceUp * tr.tradeUp)
                                                \div totalInvestedUp,
                              !.investedUp = totalInvestedUp,
                              !.tradeCount = @ + 1],
               currentCapital |-> capital - tr.tradeUp,
               totalTrades |-> trades + 1,
               traded |-> TRUE ]
        ELSE [ buildState |-> bs, currentCapital |-> capital, totalTrades |-> trades,
               traded |-> FALSE ]

\* The DOWN trade on its own, lines 1319-1346: capital is the pool as it is
\* read when the call goes on after the UP trade.
ExecuteDown(bs, market, capital, trades, tr) ==
    LET doDown == tr.sharesDown >= MIN_SHARES /\ tr.tradeDown > 0 /\ capital >= tr.tradeDown
        totalInvestedDown == bs.investedDown + tr.tradeDown
    IN  IF doDown
        THEN [ buildState |->
                   [bs EXCEPT !.avgPriceDown = (@ * bs.investedDown
                                                  + market.priceDown * tr.tradeDown)
                                                  \div totalInvestedDown,
                              !.investedDown = totalInvestedDown,
                              !.tradeCount = @ + 1],
               currentCapital |-> capital - tr.tradeDown,
               totalTrades |-> trades + 1,
               traded |-> TRUE ]
        ELSE [ buildState |-> bs, currentCapital |-> capital, totalTrades |-> trades,
               traded |-> FALSE ]

\* What a tick that has passed the timing gate decides before it trades,
\* lines 1132-1286: the BuildState with its targets raised and its bias
\* recomputed, and the capped trades, for every outcome of the draws.
TickPlans(bs0, market, capital, t) ==
    LET bs == Rebalance(GrowTargets(bs0), market, t)
    IN  { [ buildState |-> bs, trades |-> CapTrades(bs, market, capital, prop) ] :
            prop \in Proposals(bs, market, UpComplete(bs0), DownComplete(bs0)) }

\* A first tier that starts at 1 s instead of 2 s
GapMs_FromOneSecond(gapRoll, r) ==
    IF gapRoll < 800 THEN 1000 + (r * 3000) \div RandScale
    ELSE 20000 + (r * 40000) \div RandScale

\* The gap to the next trade, in ms, for the draws gapRoll and r.
GapMs(gapRoll, r) ==
    IF gapRoll < 800 THEN 2000 + (r * 3000) \div RandScale
    ELSE IF gapRoll < 880 THEN 5000 + (r * 5000) \div RandScale
    ELSE IF gapRoll < 940 THEN 10000 + (r * 10000) \div RandScale
    ELSE 20000 + (r * 40000) \div RandScale

\* now + gap as the first whole second at which now < nextTradeTime is false
NextTradeTimes(t) == { t + CeilDiv(GapMs(g, r), 1000) : g \in GapRollDraws, r \in GapDraws }

\* The first tick creating a BuildState however small the position
NewBuildStates_NoMinimum(conditionId, market, capital, t) ==
    { NewBuildState(conditionId, market, capital, t, r) : r \in SessionDraws }

\* The BuildStates a first tick may create (one per session-variance draw),
\* none when the position would be smaller than $10.
NewBuildStates(conditionId, market, capital, t) ==
    IF PositionSize(conditionId, capital) < MIN_POSITION_SIZE THEN {}
    ELSE { NewBuildState(conditionId, market, capital, t, r) : r \in SessionDraws }

\* What one call of buildPositionIncrementally may leave behind, for every
\* outcome of its random draws; nextTradeTimes are the values now + gap may
\* take.
buildPositionIncrementallyDrawing(conditionId, market, building, held, capital, trades, t, nextTradeTimes) ==
    LET same == [ buildingPositions |-> building, positions |-> held,
                  currentCapital |-> capital, totalTrades |-> trades ]
        Tick(bs0) ==
            IF t < bs0.nextTradeTime
            THEN { [same EXCEPT !.buildingPositions = Put(building, conditionId, bs0)] }
            ELSE LET upComplete == UpComplete(bs0)
                     downComplete == DownComplete(bs0)
                     bs == Rebalance(GrowTargets(bs0), market, t)
                 IN  { LET ex == ExecuteTrades(bs, market, capital, trades,
                                               CapTrades(bs, market, capital, prop))
                       IN  [ buildingPositions |->
                                Put(building, conditionId,
                                    [ex.buildState EXCEPT !.lastTradeTime = t,
                                                          !.nextTradeTime = nt]),
                             positions |-> held,
                             currentCapital |-> ex.currentCapital,
                             totalTrades |-> ex.totalTrades ]
                       : prop \in Proposals(bs, market, upComplete, downComplete),
                         nt \in nextTradeTimes }
    IN  IF ~market.assetUp \/ ~market.assetDown THEN {same}
        ELSE IF market.priceUp <= 0 \/ market.priceDown <= 0 THEN {same}
        ELSE IF market.endDate > 0 /\ EndDateMs(market.endDate) - t < EXPIRATION_WINDOW_MS
        THEN IF /\ Has(building, conditionId)
                /\ building[conditionId].investedUp > 0
                /\ building[conditionId].investedDown > 0
                /\ ~Has(held, conditionId)
             THEN LET f == finalizePosition(conditionId, market, building[conditionId],
                                            held, building)
                  IN  { [same EXCEPT !.positions = f.positions,
                                     !.buildingPositions = f.buildingPositions] }
             ELSE {same}
        ELSE IF Has(building, conditionId) THEN Tick(building[conditionId])
        ELSE LET fresh == NewBuildStates(conditionId, market, capital, t)
             IN  IF fresh = {} THEN {same} ELSE UNION { Tick(bs0) : bs0 \in fresh }

\* buildPositionIncrementally with the gap draws of the main loop's model.
buildPositionIncrementally(conditionId, market, building, held, capital, trades, t) ==
    buildPositionIncrementallyDrawing(conditionId, market, building, held, capital, trades, t,
                                      NextTradeTimes(t))

\* -------------------------------------- cleanupExpiredMarketsAndPositions
PositionExpired(position, markets, t) ==
    \/ ~Has(markets, position.conditionId)
    \/ position.endDate > 0 /\ position.endDate < t - EXPIRED_THRESHOLD_MS

\* The BuildState test of the sweep without the expiry: market gone only
BuildExpired_OnlyWhenGone(conditionId, markets, t) == ~Has(markets, conditionId)

BuildExpired(conditionId, markets, t) ==
    \/ ~Has(markets, conditionId)
    \/ markets[conditionId].endDate > 0 /\ markets[conditionId].endDate < t - EXPIRED_THRESHOLD_MS

RECURSIVE SumOver(_, _)
\* Sum of f[k] over the keys k in S.
SumOver(f, S) == IF S = {} THEN 0
                 ELSE LET k == CHOOSE x \in S : TRUE IN f[k] + SumOver(f, S \ {k})

\* The sweep without its test of isSettled
cleanupExpiredMarketsAndPositions_SettledToo(markets, held, building, proactive, capital, t) ==
    LET gonePos == { id \in DOMAIN held :
                        PositionExpired(held[id], markets, t) }
        goneBuild == { id \in DOMAIN building : BuildExpired(id, markets, t) }
        goneMarkets == { id \in DOMAIN markets :
                            markets[id].endDate # 0
                            /\ markets[id].endDate < t - EXPIRED_THRESHOLD_MS }
        refundPos == SumOver([id \in gonePos |-> held[id].costUp + held[id].costDown], gonePos)
        refundBuild == SumOver([id \in goneBuild |->
                          building[id].investedUp + building[id].investedDown], goneBuild)
    IN  [ positions |-> [id \in DOMAIN held \ gonePos |-> held[id]],
          buildingPositions |-> [id \in DOMAIN building \ goneBuild |-> building[id]],
          discoveredMarkets |-> [id \in DOMAIN markets \ goneMarkets |-> markets[id]],
          proactivelyDiscoveredIds |-> proactive \ goneMarkets,
          currentCapital |-> capital + refundPos + refundBuild ]

cleanupExpiredMarketsAndPositions(markets, held, building, proactive, capital, t) ==
    LET gonePos == { id \in DOMAIN held :
                        ~held[id].isSettled /\ PositionExpired(held[id], markets, t) }
        goneBuild == { id \in DOMAIN building : BuildExpired(id, markets, t) }
        goneMarkets == { id \in DOMAIN markets :
                            markets[id].endDate # 0
                            /\ markets[id].endDate < t - EXPIRED_THRESHOLD_MS }
        refundPos == SumOver([id \in gonePos |-> held[id].costUp + held[id].costDown], gonePos)
        refundBuild == SumOver([id \in goneBuild |->
                          building[id].investedUp + building[id].investedDown], goneBuild)
    IN  [ positions |-> [id \in DOMAIN held \ gonePos |-> held[id]],
          buildingPositions |-> [id \in DOMAIN building \ goneBuild |-> building[id]],
          discoveredMarkets |-> [id \in DOMAIN markets \ goneMarkets |-> markets[id]],
          proactivelyDiscoveredIds |-> proactive \ goneMarkets,
          currentCapital |-> capital + refundPos + refundBuild ]

\* --------------------------------------------------------- settlePositions
\* The positions one settlePositions call settles.
DueForSettlement(held, t) ==
    { id \in DOMAIN held :
        ~held[id].isSettled /\ held[id].endDate # 0 /\ ~(held[id].endDate > t) }

\* Drop the oldest cycle keys once more than MAX_PROCESSED_CYCLES are kept.
TrimCycles(cycles) ==
    IF Len(cycles) > MAX_PROCESSED_CYCLES
    THEN SubSeq(cycles, Len(cycles) - KEEP_PROCESSED_CYCLES + 1, Len(cycles))
    ELSE cycles

\* Final prices of a position: the market's, else the position's own; a side
\* that is still 0 is fetched again (fetched[side] = 0 stands for null).
FinalPrices(position, markets, fetched) ==
    LET priceUp == IF Has(markets, position.conditionId)
                   THEN markets[position.conditionId].priceUp ELSE position.currentPriceUp
        priceDown == IF Has(markets, position.conditionId)
                     THEN markets[position.conditionId].priceDown ELSE position.currentPriceDown
        refetch == priceUp = 0 \/ priceDown = 0
    IN  << IF refetch /\ fetched[1] # 0 THEN fetched[1] ELSE priceUp,
           IF refetch /\ fetched[2] # 0 THEN fetched[2] ELSE priceDown >>

\* settlePositions with setTimeout(..., 0): the purge is due at once
settlePositions_NoDelay(held, markets, fetched, t) ==
    LET due == DueForSettlement(held, t)
        effect == [ id \in due |->
                      LET final == FinalPrices(held[id], markets, fetched)
                      IN  settlePosition(held[id], final[1] >= SETTLE_WIN_PRICE,
                                                   final[2] >= SETTLE_WIN_PRICE) ]
    IN  [ positions |-> [id \in DOMAIN held |->
                            IF id \in due THEN effect[id].position ELSE held[id]],
          value |-> SumOver([id \in due |-> effect[id].value], due),
          pnl |-> SumOver([id \in due |-> effect[id].pnl], due),
          cycles |-> SumOver([id \in due |-> effect[id].cycles], due),
          timers |-> { [conditionId |-> id, due |-> t] :
                          id \in { x \in due : effect[x].timer } } ]

settlePositions(held, markets, fetched, t) ==
    LET due == DueForSettlement(held, t)
        effect == [ id \in due |->
                      LET final == FinalPrices(held[id], markets, fetched)
                      IN  settlePosition(held[id], final[1] >= SETTLE_WIN_PRICE,
                                                   final[2] >= SETTLE_WIN_PRICE) ]
    IN  [ positions |-> [id \in DOMAIN held |->
                            IF id \in due THEN effect[id].position ELSE held[id]],
          value |-> SumOver([id \in due |-> effect[id].value], due),
          pnl |-> SumOver([id \in due |-> effect[id].pnl], due),
          cycles |-> SumOver([id \in due |-> effect[id].cycles], due),
          timers |-> { [conditionId |-> id, due |-> t + PURGE_DELAY_MS] :
                          id \in { x \in due : effect[x].timer } } ]

\* ------------------------------------------------------ market discovery
\* What the market tracker may hold for a market (0 = not set).
TrackerRecords ==
    { [ assetUp |-> TRUE, assetDown |-> TRUE, endDate |-> e,
        currentPriceUp |-> 0, currentPriceDown |-> 0 ] : e \in EndDates }
    \cup { [ assetUp |-> TRUE, assetDown |-> FALSE, endDate |-> 0,
             currentPriceUp |-> 0, currentPriceDown |-> 0 ] }

\* The views the tracker may have of the markets it reports.
TrackerViews ==
    UNION { [S -> TrackerRecords] : S \in SUBSET TrackerIds }

\* proactivelyDiscoverMarkets: found[id] is the endDate the events API
\* returns for the slug of id, -1 when it returns nothing.
proactivelyDiscoverMarkets(markets, proactive, slugs, found, t) ==
    LET tried == { id \in ProactiveIds : id \notin slugs /\ ~Has(markets, id) }
        added == { id \in tried :
                     /\ found[id] >= 0
                     /\ ~(found[id] # 0 /\ found[id] < t - EXPIRED_THRESHOLD_MS) }
        slugs1 == slugs \cup tried
    IN  [ discoveredMarkets |->
              [ id \in DOMAIN markets \cup added |->
                  IF id \in added
                  THEN [ assetUp |-> TRUE, assetDown |-> TRUE, endDate |-> found[id],
                         priceUp |-> PriceScale \div 2, priceDown |-> PriceScale \div 2 ]
                  ELSE markets[id] ],
          proactivelyDiscoveredIds |-> proactive \cup added,
          fetchedSlugs |-> IF Cardinality(slugs1) > 100 THEN {} ELSE slugs1 ]

\* The sync half of discoverMarketsFromWatchers: fetchedEnd[id] is the result
\* of fetchMarketExpiration (0 = null).
discoverMarketsFromWatchers(markets, tracker, proactive, fetchedEnd, t) ==
    LET live == { id \in DOMAIN tracker :
                    ~(tracker[id].endDate > 0
                      /\ tracker[id].endDate < t - EXPIRED_THRESHOLD_MS) }
        Synced(id) ==
            LET m == tracker[id]
            IN  IF Has(markets, id)
                THEN LET e == markets[id]
                         endDate == IF m.endDate # 0 THEN m.endDate ELSE e.endDate
                     IN  [ assetUp |-> IF m.assetUp THEN TRUE ELSE e.assetUp,
                           assetDown |-> IF m.assetDown THEN TRUE ELSE e.assetDown,
                           priceUp |-> IF m.currentPriceUp # 0 THEN m.currentPriceUp ELSE e.priceUp,
                           priceDown |-> IF m.currentPriceDown # 0 THEN m.currentPriceDown
                                         ELSE e.priceDown,
                           endDate |-> IF endDate = 0 /\ fetchedEnd[id] # 0
                                       THEN fetchedEnd[id] ELSE endDate ]
                ELSE [ assetUp |-> m.assetUp,
                       assetDown |-> m.assetDown,
                       endDate |-> IF m.endDate = 0 /\ fetchedEnd[id] # 0
                                   THEN fetchedEnd[id] ELSE m.endDate,
                       priceUp |-> IF m.currentPriceUp # 0 THEN m.currentPriceUp
                                   ELSE PriceScale \div 2,
                       priceDown |-> IF m.currentPriceDown # 0 THEN m.currentPriceDown
                                     ELSE PriceScale \div 2 ]
        merged == [ id \in DOMAIN markets \cup live |->
                      IF id \in live THEN Synced(id) ELSE markets[id] ]
        kept == { id \in DOMAIN merged :
                    /\ ~(merged[id].endDate # 0
                         /\ merged[id].endDate < t - EXPIRED_THRESHOLD_MS)
                    /\ (id \in DOMAIN tracker \/ id \in proactive) }
    IN  [ id \in kept |-> merged[id] ]

\* updatePrices storing whatever the fetch returned, null (0) included
updatePrices_NullStored(markets, held, fetched, t) ==
    LET toUpdate == { id \in DOMAIN markets :
                        /\ markets[id].assetUp /\ markets[id].assetDown
                        /\ (markets[id].endDate = 0 \/ markets[id].endDate > t) }
    IN  [ discoveredMarkets |->
              [ id \in DOMAIN markets |->
                  IF id \in toUpdate
                  THEN [markets[id] EXCEPT !.priceUp = fetched[id][1],
                                           !.priceDown = fetched[id][2]]
                  ELSE markets[id] ],
          positions |->
              [ id \in DOMAIN held |->
                  IF id \in toUpdate
                  THEN [held[id] EXCEPT !.currentPriceUp = fetched[id][1],
                                        !.currentPriceDown = fetched[id][2]]
                  ELSE held[id] ] ]

\* ------------------------------------------------------------ updatePrices
\* fetched[id] = <<priceUp, priceDown>> as getOrderBookPrice returned them,
\* 0 standing for null.
updatePrices(markets, held, fetched, t) ==
    LET toUpdate == { id \in DOMAIN markets :
                        /\ markets[id].assetUp /\ markets[id].assetDown
                        /\ (markets[id].endDate = 0 \/ markets[id].endDate > t) }
    IN  [ discoveredMarkets |->
              [ id \in DOMAIN markets |->
                  IF id \in toUpdate
                  THEN [markets[id] EXCEPT
                          !.priceUp = IF fetched[id][1] # 0 THEN fetched[id][1] ELSE @,
                          !.priceDown = IF fetched[id][2] # 0 THEN fetched[id][2] ELSE @]
                  ELSE markets[id] ],
          positions |->
              [ id \in DOMAIN held |->
                  IF id \in toUpdate
                  THEN [held[id] EXCEPT
                          !.currentPriceUp = IF fetched[id][1] # 0 THEN fetched[id][1] ELSE @,
                          !.currentPriceDown = IF fetched[id][2] # 0 THEN fetched[id][2] ELSE @]
                  ELSE held[id] ] ]

\* What the order book may answer for one market: a pair of mid prices, with
\* either fetch possibly failing.
FetchResults == PricePairs \cup { <<0, 0>> }

\* ------------------------------------------------------ paperTradeMonitor
\* The history of clear-winner prices, brought up to date for the markets and
\* positions an action leaves behind.
SeenClear(seen, markets, held) ==
    (seen \cap DOMAIN held)
    \cup { id \in DOMAIN held \cap DOMAIN markets :
             ClearWinner(markets[id].priceUp, markets[id].priceDown) # "NONE" }

NoProbe == [ fn |-> "none" ]

Init ==
    /\ now = Epoch
    /\ isRunning = TRUE
    /\ pc = "top"
    /\ loopNow = Epoch
    /\ lastCleanupTime = 0
    /\ todo = {}
    /\ currentCapital = PAPER_STARTING_CAPITAL
    /\ totalPnL = 0
    /\ totalTrades = 0
    /\ totalCycles = 0
    /\ discoveredMarkets = EmptyMap
    /\ positions = EmptyMap
    /\ buildingPositions = EmptyMap
    /\ processedCycles = << >>
    /\ proactivelyDiscoveredIds = {}
    /\ fetchedSlugs = {}
    /\ trackerMarkets = EmptyMap
    /\ timers = {}
    /\ arbLog = << >>
    /\ clearSeen = {}
    /\ envChanges = 0
    /\ probe = NoProbe

\* while (isRunning) { const now = Date.now(); cleanup every 30 s; ...
LoopTop ==
    /\ pc = "top" /\ isRunning
    /\ loopNow' = now
    /\ pc' = "proactive"
    /\ IF now - lastCleanupTime >= CLEANUP_INTERVAL_MS
       THEN LET c == cleanupExpiredMarketsAndPositions(discoveredMarkets, positions,
                        buildingPositions, proactivelyDiscoveredIds, currentCapital, now)
            IN  /\ positions' = c.positions
                /\ buildingPositions' = c.buildingPositions
                /\ discoveredMarkets' = c.discoveredMarkets
                /\ proactivelyDiscoveredIds' = c.proactivelyDiscoveredIds
                /\ currentCapital' = c.currentCapital
                /\ lastCleanupTime' = now
                /\ clearSeen' = SeenClear(clearSeen, c.discoveredMarkets, c.positions)
       ELSE UNCHANGED <<positions, buildingPositions, discoveredMarkets,
                        proactivelyDiscoveredIds, currentCapital, lastCleanupTime,
                        clearSeen>>
    /\ UNCHANGED <<now, isRunning, todo, totalPnL, totalTrades, totalCycles, fetchedSlugs,
                   trackerMarkets, envChanges, processedCycles, timers, arbLog, probe>>

\* await proactivelyDiscoverMarkets()
ProactiveDiscovery ==
    /\ pc = "proactive"
    /\ \E found \in [ProactiveIds -> {-1} \cup EndDates] :
          LET d == proactivelyDiscoverMarkets(discoveredMarkets, proactivelyDiscoveredIds,
                                              fetchedSlugs, found, now)
          IN  /\ discoveredMarkets' = d.discoveredMarkets
              /\ proactivelyDiscoveredIds' = d.proactivelyDiscoveredIds
              /\ fetchedSlugs' = d.fetchedSlugs
    /\ pc' = "watchers"
    /\ UNCHANGED <<now, isRunning, loopNow, lastCleanupTime, todo, moneyVars,
                   trackerMarkets, envChanges, posVars, probe>>

\* await discoverMarketsFromWatchers(): the watched trades are handed to the
\* market tracker, which may change what it reports, then the tracker's
\* markets are synced.
WatcherDiscovery ==
    /\ pc = "watchers"
    /\ \E view \in {trackerMarkets}
                   \cup (IF envChanges < MaxEnvChanges THEN TrackerViews ELSE {}) :
       \E fetchedEnd \in [TrackerIds -> {0} \cup EndDates] :
          /\ trackerMarkets' = view
          /\ envChanges' = IF view = trackerMarkets THEN envChanges ELSE envChanges + 1
          /\ discoveredMarkets' = discoverMarketsFromWatchers(discoveredMarkets, view,
                                        proactivelyDiscoveredIds, fetchedEnd, now)
    /\ pc' = "prices"
    /\ UNCHANGED <<now, isRunning, loopNow, lastCleanupTime, todo, moneyVars,
                   proactivelyDiscoveredIds, fetchedSlugs, posVars, probe>>

\* await updatePrices(), then the for-loop over discoveredMarkets starts
UpdatePrices ==
    /\ pc = "prices"
    /\ \E fetched \in [DOMAIN discoveredMarkets -> FetchResults] :
          LET u == updatePrices(discoveredMarkets, positions, fetched, now)
              moved == { id \in DOMAIN discoveredMarkets :
                            u.discoveredMarkets[id] # discoveredMarkets[id] }
          IN  /\ envChanges + Cardinality(moved) <= MaxEnvChanges
              /\ envChanges' = envChanges + Cardinality(moved)
              /\ discoveredMarkets' = u.discoveredMarkets
              /\ positions' = u.positions
              /\ clearSeen' = SeenClear(clearSeen, u.discoveredMarkets, u.positions)
              /\ todo' = DOMAIN discoveredMarkets
    /\ pc' = "process"
    /\ UNCHANGED <<now, isRunning, loopNow, lastCleanupTime, moneyVars,
                   proactivelyDiscoveredIds, fetchedSlugs, trackerMarkets,
                   buildingPositions, processedCycles, timers, arbLog, probe>>

\* The branch the loop body takes for a market.
Branch(id) ==
    LET market == discoveredMarkets[id]
    IN  IF market.endDate > 0 /\ market.endDate <= loopNow THEN "skip"
        ELSE IF ~(market.assetUp /\ market.assetDown) THEN "wait"
        ELSE IF Has(buildingPositions, id) THEN "build"
        ELSE IF ~Has(positions, id) THEN "build"
        ELSE IF ~positions[id].hasArbitragePosition /\ ~positions[id].isSettled THEN "arb"
        ELSE "done"

\* The for-loop not moving on to the next entry of discoveredMarkets
Visit_SameEntryAgain(id) ==
    /\ pc = "process"
    /\ id \in todo
    /\ todo' = todo

Visit(id) ==
    /\ pc = "process"
    /\ id \in todo
    /\ todo' = todo \ {id}

\* SKIP, WAIT and DONE: the market is passed over
ProcessSkip(id) ==
    /\ Visit(id)
    /\ Branch(id) \in {"skip", "wait", "done"}
    /\ UNCHANGED <<now, isRunning, pc, loopNow, lastCleanupTime, moneyVars, marketVars,
                   posVars, probe>>

\* await buildPositionIncrementally(market)
ProcessBuild(id) ==
    /\ Visit(id)
    /\ Branch(id) = "build"
    /\ \E b \in buildPositionIncrementally(id, discoveredMarkets[id], buildingPositions,
                                           positions, currentCapital, totalTrades, now) :
          /\ buildingPositions' = b.buildingPositions
          /\ positions' = b.positions
          /\ currentCapital' = b.currentCapital
          /\ totalTrades' = b.totalTrades
          /\ clearSeen' = SeenClear(clearSeen, discoveredMarkets, b.positions)
    /\ UNCHANGED <<now, isRunning, pc, loopNow, lastCleanupTime, totalPnL, totalCycles,
                   marketVars, processedCycles, timers, arbLog, probe>>

\* await executeArbitrageTrade(position, market)
ProcessArbitrage(id) ==
    /\ Visit(id)
    /\ Branch(id) = "arb"
    /\ LET a == executeArbitrageTrade(positions[id], discoveredMarkets[id], currentCapital,
                                      processedCycles, totalTrades, now)
       IN  /\ positions' = [positions EXCEPT ![id] = a.position]
           /\ currentCapital' = a.currentCapital
           /\ processedCycles' = a.processedCycles
           /\ totalTrades' = a.totalTrades
           /\ arbLog' = arbLog \o a.logged
    /\ UNCHANGED <<now, isRunning, pc, loopNow, lastCleanupTime, totalPnL, totalCycles,
                   marketVars, buildingPositions, timers, clearSeen, probe>>

\* await settlePositions(), once the for-loop is through
SettlePositions ==
    /\ pc = "process"
    /\ todo = {}
    /\ \E fetched \in (IF \E id \in DueForSettlement(positions, now) :
                             LET final == FinalPrices(positions[id], discoveredMarkets, <<0, 0>>)
                             IN  final[1] = 0 \/ final[2] = 0
                       THEN FetchResults ELSE { <<0, 0>> }) :
          LET st == settlePositions(positions, discoveredMarkets, fetched, now)
          IN  /\ positions' = st.positions
              /\ currentCapital' = currentCapital + st.value
              /\ totalPnL' = totalPnL + st.pnl
              /\ totalCycles' = totalCycles + st.cycles
              /\ timers' = timers \cup st.timers
    /\ processedCycles' = TrimCycles(processedCycles)
    /\ pc' = "sleep"
    /\ UNCHANGED <<now, isRunning, loopNow, lastCleanupTime, todo, totalTrades, marketVars,
                   buildingPositions, arbLog, clearSeen, probe>>

\* The delay without the line before it, if (!isRunning) break
Sleep_NoBreak ==
    /\ pc = "sleep"
    /\ \E dt \in SleepSteps :
          /\ dt >= POLL_INTERVAL_MS
          /\ now + dt <= Epoch + MaxTime
          /\ now' = now + dt
    /\ pc' = "top"
    /\ UNCHANGED <<isRunning, loopNow, lastCleanupTime, todo, moneyVars, marketVars,
                   posVars, probe>>

\* await new Promise(resolve => setTimeout(resolve, POLL_INTERVAL_MS)): the
\* clock has moved on when the loop resumes
Sleep ==
    /\ pc = "sleep" /\ isRunning
    /\ \E dt \in SleepSteps :
          /\ dt >= POLL_INTERVAL_MS
          /\ now + dt <= Epoch + MaxTime
          /\ now' = now + dt
    /\ pc' = "top"
    /\ UNCHANGED <<isRunning, loopNow, lastCleanupTime, todo, moneyVars, marketVars,
                   posVars, probe>>

\* while (isRunning) fails, or if (!isRunning) break
LoopExit ==
    /\ pc \in {"top", "sleep"} /\ ~isRunning
    /\ pc' = "stopped"
    /\ UNCHANGED <<now, isRunning, loopNow, lastCleanupTime, todo, moneyVars, marketVars,
                   posVars, probe>>

\* stopPaperTradeMonitor()
stopPaperTradeMonitor ==
    /\ isRunning /\ pc \in {"prices", "sleep"}
    /\ isRunning' = FALSE
    /\ UNCHANGED <<now, pc, loopNow, lastCleanupTime, todo, moneyVars, marketVars,
                   posVars, probe>>

\* A timer callback that also hands the position's cost back to the pool
PurgeTimer_Refunding(tm) ==
    /\ tm \in timers
    /\ tm.due <= now
    /\ positions' = Delete(positions, tm.conditionId)
    /\ timers' = timers \ {tm}
    /\ clearSeen' = clearSeen \ {tm.conditionId}
    /\ currentCapital' = currentCapital + 1
    /\ UNCHANGED <<loopVars, totalPnL, totalTrades, totalCycles, marketVars,
                   buildingPositions, processedCycles, arbLog, probe>>

\* The setTimeout callback of settlePosition: positions.delete(conditionId)
PurgeTimer(tm) ==
    /\ tm \in timers
    /\ tm.due <= now
    /\ positions' = Delete(positions, tm.conditionId)
    /\ timers' = timers \ {tm}
    /\ clearSeen' = clearSeen \ {tm.conditionId}
    /\ UNCHANGED <<loopVars, moneyVars, marketVars, buildingPositions, processedCycles,
                   arbLog, probe>>

Next ==
    \/ LoopTop
    \/ ProactiveDiscovery
    \/ WatcherDiscovery
    \/ UpdatePrices
    \/ \E id \in MarketIds : ProcessSkip(id)
    \/ \E id \in MarketIds : ProcessBuild(id)
    \/ \E id \in MarketIds : ProcessArbitrage(id)
    \/ SettlePositions
    \/ Sleep
    \/ LoopExit
    \/ stopPaperTradeMonitor
    \/ \E tm \in timers : PurgeTimer(tm)

Spec == Init /\ [][Next]_vars

\* ----------------------------------------------- the purge timers' clock
\* The setTimeout of settlePosition runs on the clock, not on the loop: while
\* the loop sleeps, or after it has stopped, the clock reaches the instant a
\* pending timer is due.
TimerElapse(id) ==
    /\ pc \in {"sleep", "stopped"}
    /\ \E tm \in timers :
          /\ tm.conditionId = id
          /\ tm.due > now
          /\ now' = tm.due
    /\ UNCHANGED <<isRunning, pc, loopNow, lastCleanupTime, todo, moneyVars, marketVars,
                   posVars, probe>>

\* The callback of the timer set at the settlement of id.
PurgeTimerOf(id) == \E tm \in timers : tm.conditionId = id /\ PurgeTimer(tm)

NextTimed ==
    \/ Next
    \/ \E id \in MarketIds : TimerElapse(id)

\* The event loop of the runtime runs every timer callback once its delay
\* has elapsed, whatever the main loop does.
TimerFairness ==
    \A id \in MarketIds : WF_vars(TimerElapse(id)) /\ WF_vars(PurgeTimerOf(id))

SpecTimed == Init /\ [][NextTimed]_vars /\ TimerFairness

\* ------------------------------------------- errors inside an iteration
\* An error is thrown inside the try block of an iteration, by cleanup,
\* discovery, the price refresh, a market's evaluation or settlement; it
\* strikes between two steps of the loop, after what the steps before it did.
\* } catch (error) { Logger.error(...): the rest of the iteration is left out.
\* An error that ended the loop instead
IterationError_Fatal ==
    /\ pc \in {"proactive", "watchers", "prices", "process"} \/ (pc = "top" /\ isRunning)
    /\ pc' = "stopped"
    /\ todo' = {}
    /\ UNCHANGED <<now, isRunning, loopNow, lastCleanupTime, moneyVars, marketVars,
                   posVars, probe>>

IterationError ==
    /\ pc \in {"proactive", "watchers", "prices", "process"} \/ (pc = "top" /\ isRunning)
    /\ pc' = "caught"
    /\ todo' = {}
    /\ UNCHANGED <<now, isRunning, loopNow, lastCleanupTime, moneyVars, marketVars,
                   posVars, probe>>

\* await new Promise(resolve => setTimeout(resolve, 2000)) of the catch
\* block, then back to while (isRunning)
CatchDelay ==
    /\ pc = "caught"
    /\ \E dt \in SleepSteps :
          /\ dt >= CATCH_DELAY_MS
          /\ now + dt <= Epoch + MaxTime
          /\ now' = now + dt
    /\ pc' = "top"
    /\ UNCHANGED <<isRunning, loopNow, lastCleanupTime, todo, moneyVars, marketVars,
                   posVars, probe>>

NextFaulty ==
    \/ Next
    \/ IterationError
    \/ CatchDelay

SpecFaulty == Init /\ [][NextFaulty]_vars

\* ------------------------------------------------- the loop's scheduling
\* The steps of the loop itself.
LoopStep ==
    \/ LoopTop
    \/ ProactiveDiscovery
    \/ WatcherDiscovery
    \/ UpdatePrices
    \/ \E id \in MarketIds : ProcessSkip(id) \/ ProcessBuild(id) \/ ProcessArbitrage(id)
    \/ SettlePositions
    \/ LoopExit

\* The loop moves on from where it stands: a new iteration is entered, an
\* awaited phase returns, the for-loop takes the next market, settlement is
\* done, or the loop is left. (The delay is not among them: it ends when
\* the clock says so.)
LoopAdvance ==
    \/ pc = "top" /\ isRunning /\ pc' = "proactive" /\ todo' = todo
    \/ pc = "proactive" /\ pc' = "watchers" /\ todo' = todo
    \/ pc = "watchers" /\ pc' = "prices" /\ todo' = todo
    \/ pc = "prices" /\ pc' = "process" /\ todo' = DOMAIN discoveredMarkets
    \/ pc = "process" /\ pc' = "process" /\ \E id \in todo : todo' = todo \ {id}
    \/ pc = "process" /\ todo = {} /\ pc' = "sleep" /\ todo' = todo
    \/ pc \in {"top", "sleep"} /\ ~isRunning /\ pc' = "stopped" /\ todo' = todo

\* Where the loop stands.
loopAt == <<pc, todo>>

\* Wherever the loop stands outside the delay, one of its steps can be taken.
LoopCanAdvance ==
    (pc # "stopped" /\ ~(pc = "sleep" /\ isRunning)) => ENABLED LoopStep

\* Every await of an iteration resolves and the loop goes on from it.
SpecLoop == Init /\ [][Next]_vars /\ WF_loopAt(LoopAdvance)

\* The loop is fair and the clock advances: every await of an iteration
\* resolves, the delay between two iterations ends, and a timer callback
\* that is due runs.
SpecLive ==
    /\ Init /\ [][Next]_vars
    /\ WF_loopAt(LoopAdvance) /\ WF_now(Sleep)
    /\ \A id \in MarketIds : WF_timers(PurgeTimerOf(id))

\* ------------------------------------------- finalizePosition on its own
\* <<invested, avgPrice>> of one side of a BuildState: nothing invested, or
\* an amount in cents bought at an average price.
SideInputs == { <<0, 0>>, <<60000, 5000>>, <<40000, 4000>>, <<710, 5000>>,
                <<140, 500>>, <<1000, 3333>>, <<2660, 9500>>, <<1, 9999>> }

\* A BuildState holding the given investments.
BuildStateOf(up, down, market, t) ==
    [ targetUp |-> Max(up[1], 710), targetDown |-> Max(down[1], 690),
      investedUp |-> up[1], investedDown |-> down[1],
      lastTradeTime |-> t, nextTradeTime |-> t,
      tradeCount |-> (IF up[1] > 0 THEN 1 ELSE 0) + (IF down[1] > 0 THEN 1 ELSE 0),
      avgPriceUp |-> up[2], avgPriceDown |-> down[2],
      initialPriceUp |-> market.priceUp, initialPriceDown |-> market.priceDown,
      lastRebalanceTime |-> t, momentumBias |-> 0 ]

\* A market being built, inside its pre-expiry window.
InitFinalize ==
    /\ now = Epoch /\ isRunning = TRUE /\ pc = "call" /\ loopNow = Epoch
    /\ lastCleanupTime = Epoch /\ todo = {}
    /\ currentCapital = 0 /\ totalPnL = 0 /\ totalTrades = 2 /\ totalCycles = 0
    /\ \E id \in MarketIds, up \in SideInputs, down \in SideInputs :
          LET market == [ assetUp |-> TRUE, assetDown |-> TRUE, endDate |-> Epoch + 60,
                          priceUp |-> PriceScale \div 2, priceDown |-> PriceScale \div 2 ]
          IN  /\ discoveredMarkets = [x \in {id} |-> market]
              /\ buildingPositions = [x \in {id} |-> BuildStateOf(up, down, market, Epoch)]
              /\ probe = [ fn |-> "finalizePosition", conditionId |-> id,
                           buildState |-> BuildStateOf(up, down, market, Epoch) ]
    /\ positions = EmptyMap
    /\ processedCycles = << >> /\ proactivelyDiscoveredIds = {} /\ fetchedSlugs = {}
    /\ trackerMarkets = EmptyMap /\ timers = {} /\ arbLog = << >> /\ clearSeen = {}
    /\ envChanges = 0

\* await finalizePosition(market, buildState)
FinalizeCall ==
    /\ pc = "call" /\ probe.fn = "finalizePosition"
    /\ LET f == finalizePosition(probe.conditionId, discoveredMarkets[probe.conditionId],
                                 probe.buildState, positions, buildingPositions)
       IN  /\ positions' = f.positions
           /\ buildingPositions' = f.buildingPositions
    /\ pc' = "returned"
    /\ UNCHANGED <<now, isRunning, loopNow, lastCleanupTime, todo, moneyVars, marketVars,
                   processedCycles, timers, arbLog, clearSeen, probe>>

SpecFinalize == InitFinalize /\ [][FinalizeCall]_vars

\* -------------------------------------- executeArbitrageTrade on its own
\* Seconds left to the position's expiry at the call: before, on and next to
\* both ends of the arbitrage window, at expiry and after it.
RemainingTried == {-30, 0, 9, 10, 11, 119, 120, 121, 600}
\* Capital pools tried: enough for a purchase, and less than PAPER_MIN_TRADE.
ArbCapitalTried == {2000, 49}

\* A finalized position of market id, as finalizePosition left it or as an
\* earlier arbitrage or settlement marked it, and the capital pool.
InitArbitrage ==
    /\ now = Epoch /\ isRunning = TRUE /\ pc = "call" /\ loopNow = Epoch
    /\ lastCleanupTime = Epoch /\ todo = {}
    /\ totalPnL = 0 /\ totalTrades = 2 /\ totalCycles = 0
    /\ \E id \in MarketIds, remaining \in RemainingTried, pp \in PricePairs,
          arbitraged \in BOOLEAN, settled \in BOOLEAN, tagged \in BOOLEAN,
          capital \in ArbCapitalTried :
          LET market == [ assetUp |-> TRUE, assetDown |-> TRUE,
                          endDate |-> Epoch + remaining,
                          priceUp |-> pp[1], priceDown |-> pp[2] ]
              built == MarketPosition(id, market,
                           BuildStateOf(<<710, 5000>>, <<690, 5000>>, market, Epoch))
              position == [built EXCEPT !.hasArbitragePosition = arbitraged,
                                        !.arbSharesDown = IF arbitraged THEN 10000 ELSE 0,
                                        !.arbCostDown = IF arbitraged THEN 500 ELSE 0,
                                        !.isSettled = settled]
          IN  /\ discoveredMarkets = [x \in {id} |-> market]
              /\ positions = [x \in {id} |-> position]
              /\ currentCapital = capital
              /\ processedCycles = IF tagged \/ arbitraged
                                   THEN << CycleKey(id, market.endDate) >> ELSE << >>
              /\ probe = [ fn |-> "executeArbitrageTrade", conditionId |-> id,
                           position |-> position, currentCapital |-> capital,
                           timeToExpiration |-> remaining ]
    /\ buildingPositions = EmptyMap
    /\ proactivelyDiscoveredIds = {} /\ fetchedSlugs = {}
    /\ trackerMarkets = EmptyMap /\ timers = {} /\ arbLog = << >> /\ clearSeen = {}
    /\ envChanges = 0

\* await executeArbitrageTrade(position, market)
ArbitrageCall ==
    /\ pc = "call" /\ probe.fn = "executeArbitrageTrade"
    /\ LET id == probe.conditionId
           a == executeArbitrageTrade(positions[id], discoveredMarkets[id], currentCapital,
                                      processedCycles, totalTrades, now)
       IN  /\ positions' = [positions EXCEPT ![id] = a.position]
           /\ currentCapital' = a.currentCapital
           /\ processedCycles' = a.processedCycles
           /\ totalTrades' = a.totalTrades
           /\ arbLog' = arbLog \o a.logged
    /\ pc' = "returned"
    /\ UNCHANGED <<now, isRunning, loopNow, lastCleanupTime, todo, totalPnL, totalCycles,
                   marketVars, buildingPositions, timers, clearSeen, probe>>

SpecArbitrage == InitArbitrage /\ [][ArbitrageCall]_vars

\* -------------------------------------------- settlePositions on its own
\* Terminal prices <<UP, DOWN>> at settlement; the two sides are read from
\* two order books, so every combination can come up: one side at or above
\* 0.95, both, neither, and a side not known (0).
SettlePricesTried ==
    { <<9600, 400>>, <<400, 9600>>, <<9500, 9500>>, <<9600, 9700>>, <<5000, 5000>>,
      <<9499, 9499>>, <<0, 9600>> }
\* The arbitrage purchase a position may carry: none, DOWN or UP.
ArbSidesTried == {"NONE", "DOWN", "UP"}

\* A finalized, unsettled position whose expiry has passed, with or without
\* an arbitrage purchase; its market is still tracked or no longer is.
InitSettle ==
    /\ now = Epoch /\ isRunning = TRUE /\ pc = "call" /\ loopNow = Epoch
    /\ lastCleanupTime = Epoch /\ todo = {}
    /\ totalPnL = 0 /\ totalTrades = 2 /\ totalCycles = 0
    /\ \E id \in MarketIds, pp \in SettlePricesTried, arb \in ArbSidesTried,
          tracked \in BOOLEAN, capital \in ArbCapitalTried :
          LET market == [ assetUp |-> TRUE, assetDown |-> TRUE,
                          endDate |-> Epoch - 10,
                          priceUp |-> pp[1], priceDown |-> pp[2] ]
              built == MarketPosition(id, market,
                           BuildStateOf(<<710, 5000>>, <<690, 4000>>, market, Epoch - 200))
              position == [built EXCEPT
                              !.hasArbitragePosition = arb # "NONE",
                              !.arbSharesDown = IF arb = "DOWN" THEN 10000 ELSE 0,
                              !.arbCostDown = IF arb = "DOWN" THEN 500 ELSE 0,
                              !.arbSharesUp = IF arb = "UP" THEN 10000 ELSE 0,
                              !.arbCostUp = IF arb = "UP" THEN 500 ELSE 0]
          IN  /\ discoveredMarkets = IF tracked THEN [x \in {id} |-> market] ELSE EmptyMap
              /\ positions = [x \in {id} |-> position]
              /\ currentCapital = capital
              /\ processedCycles = IF arb # "NONE"
                                   THEN << CycleKey(id, market.endDate) >> ELSE << >>
              /\ probe = [ fn |-> "settlePositions", conditionId |-> id,
                           position |-> position, currentCapital |-> capital,
                           priceUp |-> pp[1], priceDown |-> pp[2] ]
    /\ buildingPositions = EmptyMap
    /\ proactivelyDiscoveredIds = {} /\ fetchedSlugs = {}
    /\ trackerMarkets = EmptyMap /\ timers = {} /\ arbLog = << >> /\ clearSeen = {}
    /\ envChanges = 0

\* await settlePositions(); a price that is not known is fetched and the
\* fetch fails
SettleCall ==
    /\ pc = "call" /\ probe.fn = "settlePositions"
    /\ LET st == settlePositions(positions, discoveredMarkets, <<0, 0>>, now)
       IN  /\ positions' = st.positions
           /\ currentCapital' = currentCapital + st.value
           /\ totalPnL' = totalPnL + st.pnl
           /\ totalCycles' = totalCycles + st.cycles
           /\ timers' = timers \cup st.timers
    /\ processedCycles' = TrimCycles(processedCycles)
    /\ pc' = "returned"
    /\ UNCHANGED <<now, isRunning, loopNow, lastCleanupTime, todo, totalTrades, marketVars,
                   buildingPositions, arbLog, clearSeen, probe>>

SpecSettle == InitSettle /\ [][SettleCall]_vars

\* ============================================================ PolicyEngine
\* The PolicyEngine methods are pure: each is called once on inputs drawn from
\* bounded sets while the paper-trading state stays as constructed.
Idle ==
    /\ now = Epoch /\ isRunning = TRUE /\ loopNow = Epoch
    /\ lastCleanupTime = 0 /\ todo = {}
    /\ currentCapital = PAPER_STARTING_CAPITAL
    /\ totalPnL = 0 /\ totalTrades = 0 /\ totalCycles = 0
    /\ discoveredMarkets = EmptyMap /\ positions = EmptyMap
    /\ buildingPositions = EmptyMap /\ processedCycles = << >>
    /\ proactivelyDiscoveredIds = {} /\ fetchedSlugs = {}
    /\ trackerMarkets = EmptyMap /\ timers = {} /\ arbLog = << >>
    /\ clearSeen = {} /\ envChanges = 0

idleVars == <<now, isRunning, loopNow, lastCleanupTime, todo, moneyVars, marketVars, posVars>>

\* --------------------------------------------------------- computeFeatures
\* Longest history buffer tried.
MaxHistory == 2
\* Ages (seconds before the tick) of the history samples tried: on and next to
\* the acceptance limits of the 1 s, 5 s and 30 s windows.
SampleAges == {0, 2, 3, 14, 15, 89, 90}
\* <<up_px, down_px>> of a tick or sample.
TickPrices == { <<5000, 5000>>, <<6000, 4000>> }

RECURSIVE SortByTimestamp(_)
\* [...history].sort((a, b) => a.timestamp - b.timestamp), a stable sort
SortByTimestamp(history) ==
    IF history = << >> THEN << >>
    ELSE LET sorted == SortByTimestamp(SubSeq(history, 1, Len(history) - 1))
             h == history[Len(history)]
             k == Cardinality({ i \in 1..Len(sorted) : sorted[i].timestamp <= h.timestamp })
         IN  SubSeq(sorted, 1, k) \o <<h>> \o SubSeq(sorted, k + 1, Len(sorted))

\* findClosest: the first sample of the sorted history at the least distance
findClosest(sortedHistory, targetTs) ==
    LET diff(i) == Abs(sortedHistory[i].timestamp - targetTs)
        best == CHOOSE i \in 1..Len(sortedHistory) :
                    /\ \A j \in 1..Len(sortedHistory) : diff(i) <= diff(j)
                    /\ \A j \in 1..(i - 1) : diff(j) > diff(i)
    IN  sortedHistory[best]

\* The acceptance test with the distance never looked at
WithinWindow_Always(past, windowTs, seconds) == TRUE

\* Math.abs(past.timestamp - windowTs) < seconds * 2000
WithinWindow(past, windowTs, seconds) ==
    Abs(past.timestamp - windowTs) < seconds * 2

\* `delta_${seconds}s_${which}_px`
DeltaField(seconds, which) ==
    CASE seconds = 1 /\ which = "up" -> "delta_1s_up_px"
      [] seconds = 1 /\ which = "down" -> "delta_1s_down_px"
      [] seconds = 1 /\ which = "side" -> "delta_1s_side_px"
      [] seconds = 5 /\ which = "up" -> "delta_5s_up_px"
      [] seconds = 5 /\ which = "down" -> "delta_5s_down_px"
      [] seconds = 5 /\ which = "side" -> "delta_5s_side_px"
      [] seconds = 30 /\ which = "up" -> "delta_30s_up_px"
      [] seconds = 30 /\ which = "down" -> "delta_30s_down_px"
      [] seconds = 30 /\ which = "side" -> "delta_30s_side_px"

\* `volatility_${seconds}s`
VolatilityField(seconds) == IF seconds = 5 THEN "volatility_5s" ELSE "volatility_30s"

RECURSIVE IsqrtIn(_, _, _)
\* floor(sqrt(v)), searched between lo and hi
IsqrtIn(lo, hi, v) ==
    IF lo >= hi THEN lo
    ELSE LET mid == (lo + hi + 1) \div 2
         IN  IF mid * mid <= v THEN IsqrtIn(mid, hi, v) ELSE IsqrtIn(lo, mid - 1, v)

\* Population standard deviation of a price series, rounded down.
Std(prices) ==
    LET n == Len(prices)
        sum == SumSeq(prices)
        sumSq == SumSeq([i \in 1..n |-> prices[i] * prices[i]])
    IN  IsqrtIn(0, PriceScale, n * sumSq - sum * sum) \div n

\* The Features object, a function on the names of the fields that are set.
computeFeatures(state, history) ==
    LET distance == ("distance_from_50" :> Abs(state.up_px - PriceScale \div 2))
        sortedHistory == SortByTimestamp(history)
        Delta(seconds) ==
            LET windowTs == state.timestamp - seconds
                past == findClosest(sortedHistory, windowTs)
            IN  IF WithinWindow(past, windowTs, seconds)
                THEN (DeltaField(seconds, "up") :> (state.up_px - past.up_px))
                     @@ (DeltaField(seconds, "down") :> (state.down_px - past.down_px))
                     @@ (DeltaField(seconds, "side") :> (state.up_px - past.up_px))
                ELSE EmptyMap
        Volatility(seconds) ==
            LET windowPrices ==
                    SelectSeq([i \in 1..Len(sortedHistory) |->
                                  IF /\ sortedHistory[i].timestamp >= state.timestamp - seconds
                                     /\ sortedHistory[i].timestamp <= state.timestamp
                                  THEN sortedHistory[i].up_px ELSE -1],
                              LAMBDA p : p >= 0)
            IN  IF Len(windowPrices) > 1
                THEN (VolatilityField(seconds) :> Std(windowPrices))
                ELSE EmptyMap
    IN  IF Len(history) = 0 THEN distance
        ELSE distance @@ Delta(1) @@ Delta(5) @@ Delta(30)
                      @@ Volatility(5) @@ Volatility(30)

\* The history buffers tried: every order of up to MaxHistory samples.
Samples == { [ timestamp |-> Epoch - age, up_px |-> pp[1], down_px |-> pp[2] ] :
                age \in SampleAges, pp \in TickPrices }
Histories == UNION { [1..n -> Samples] : n \in 0..MaxHistory }

InitFeatures ==
    /\ Idle
    /\ pc = "call"
    /\ \E pp \in TickPrices, history \in Histories :
          probe = [ fn |-> "computeFeatures",
                    state |-> [ timestamp |-> Epoch, up_px |-> pp[1], down_px |-> pp[2] ],
                    history |-> history,
                    features |-> EmptyMap ]

\* features = policyEngine.computeFeatures(state, history)
FeaturesCall ==
    /\ pc = "call" /\ probe.fn = "computeFeatures"
    /\ probe' = [probe EXCEPT !.features = computeFeatures(probe.state, probe.history)]
    /\ pc' = "returned"
    /\ UNCHANGED idleVars

SpecFeatures == InitFeatures /\ [][FeaturesCall]_vars

\* ------------------------------------------------------------ sizeForTrade
\* Sizes are kept in 1/100000 share, one digit more than toFixed(4) keeps.
SizeScale == 10^5

RECURSIVE StripZeros(_)
\* A digit sequence without its trailing zeros.
StripZeros(digits) ==
    IF digits # << >> /\ digits[Len(digits)] = 0
    THEN StripZeros(SubSeq(digits, 1, Len(digits) - 1))
    ELSE digits

\* The decimal digits of a price x / PriceScale after the point.
FractionDigits(x) ==
    LET f == x % PriceScale
    IN  StripZeros(<< f \div 1000, (f \div 100) % 10, (f \div 10) % 10, f % 10 >>)

\* `${x}` of a JavaScript number: no fraction is printed for a whole number.
NumberText(x) == [ int |-> x \div PriceScale, frac |-> FractionDigits(x) ]

\* The text pandas prints for a float edge: a whole number keeps ".0".
PandasText(x) ==
    [ int |-> x \div PriceScale,
      frac |-> IF FractionDigits(x) = << >> THEN <<0>> ELSE FractionDigits(x) ]

\* The scan for the bucket with the upper edge excluded
BucketIndex_UpperExclusive(sidePx, binEdges) ==
    LET hits == { i \in 1..(Len(binEdges) - 1) :
                     sidePx >= binEdges[i] /\ sidePx < binEdges[i + 1] }
    IN  IF hits # {} THEN CHOOSE i \in hits : \A j \in hits : i <= j
        ELSE IF sidePx < binEdges[1] THEN 1
        ELSE Len(binEdges) - 1

\* bucketIndex, counted from 1: the first i with binEdges[i] <= sidePx <=
\* binEdges[i + 1], else the nearest bucket.
BucketIndex(sidePx, binEdges) ==
    LET hits == { i \in 1..(Len(binEdges) - 1) :
                     sidePx >= binEdges[i] /\ sidePx <= binEdges[i + 1] }
    IN  IF hits # {} THEN CHOOSE i \in hits : \A j \in hits : i <= j
        ELSE IF sidePx < binEdges[1] THEN 1
        ELSE Len(binEdges) - 1

\* bucketKey = `(${binEdges[bucketIndex]}, ${binEdges[bucketIndex + 1]}]`
BucketKey(binEdges, bucketIndex) ==
    << NumberText(binEdges[bucketIndex]), NumberText(binEdges[bucketIndex + 1]) >>

\* parseFloat(x.toFixed(4))
ToFixed4(x) == ((x + 5) \div 10) * 10

RECURSIVE SortedValues(_, _)
\* Object.values(size_table).sort((a, b) => a - b)
SortedValues(table, keys) ==
    IF keys = {} THEN << >>
    ELSE LET k == CHOOSE x \in keys : \A y \in keys : table[x] <= table[y]
         IN  <<table[k]>> \o SortedValues(table, keys \ {k})

\* sizeForTrade falling back to the element below the middle
sizeForTrade_LowerMedian(state, sizeParams, side) ==
    IF ~sizeParams.defined THEN SizeScale
    ELSE IF DOMAIN sizeParams.size_table = {} THEN SizeScale
    ELSE LET sidePx == IF side = "UP" THEN state.up_px ELSE state.down_px
             bucketKey == BucketKey(sizeParams.bin_edges,
                                    BucketIndex(sidePx, sizeParams.bin_edges))
             sorted == SortedValues(sizeParams.size_table, DOMAIN sizeParams.size_table)
         IN  IF bucketKey \in DOMAIN sizeParams.size_table
             THEN ToFixed4(sizeParams.size_table[bucketKey])
             ELSE ToFixed4(sorted[(Len(sorted) + 1) \div 2])

\* sizeParams.defined is FALSE for undefined; the side's price is looked up
\* in the table, the result is in 1/100000 share.
sizeForTrade(state, sizeParams, side) ==
    IF ~sizeParams.defined THEN SizeScale
    ELSE IF DOMAIN sizeParams.size_table = {} THEN SizeScale
    ELSE LET sidePx == IF side = "UP" THEN state.up_px ELSE state.down_px
             bucketKey == BucketKey(sizeParams.bin_edges,
                                    BucketIndex(sidePx, sizeParams.bin_edges))
             sorted == SortedValues(sizeParams.size_table, DOMAIN sizeParams.size_table)
         IN  IF bucketKey \in DOMAIN sizeParams.size_table
             THEN ToFixed4(sizeParams.size_table[bucketKey])
             ELSE ToFixed4(sorted[Len(sorted) \div 2 + 1])

\* Bin edges as the parameter file lists them, strictly ascending.
EdgeLists == { <<0, 500, 10000>>, <<500, 5000, 9500>>, <<0, 500, 5000, 10000>>,
               <<500, 2500, 5000, 9500>> }
\* Sizes of the bins, lowest bin first.
BinSizes == { <<1250000, 123456, 33333>>, <<33333, 250000, 1250000>> }
\* Prices looked up: on the edges, between them and outside them.
LookupPrices == {0, 250, 500, 2000, 5000, 7000, 9500, 9800, 10000}

\* The size table of a parameter file: one entry per bin but the bin
\* `missing` (0 = none), keyed the way the writer `style` prints the edges.
SizeTableOf(edges, sizes, style, missing) ==
    LET bins == (1..(Len(edges) - 1)) \ {missing}
        KeyOf(i) == IF style = "pandas"
                    THEN << PandasText(edges[i]), PandasText(edges[i + 1]) >>
                    ELSE << NumberText(edges[i]), NumberText(edges[i + 1]) >>
        BinOf(key) == CHOOSE i \in bins : KeyOf(i) = key
    IN  [ key \in { KeyOf(i) : i \in bins } |-> sizes[BinOf(key)] ]

SizeParamsTried ==
    { [ defined |-> FALSE, bin_edges |-> << >>, size_table |-> EmptyMap ] }
    \cup { [ defined |-> TRUE, bin_edges |-> edges, size_table |-> EmptyMap ] :
             edges \in EdgeLists }
    \cup { [ defined |-> TRUE, bin_edges |-> edges,
               size_table |-> SizeTableOf(edges, sizes, style, missing) ] :
             edges \in EdgeLists, sizes \in BinSizes, style \in {"pandas", "js"},
             missing \in 0..3 }

InitSize ==
    /\ Idle
    /\ pc = "call"
    /\ \E px \in LookupPrices, side \in {"UP", "DOWN"}, sizeParams \in SizeParamsTried :
          probe = [ fn |-> "sizeForTrade",
                    state |-> [ timestamp |-> Epoch,
                                up_px |-> IF side = "UP" THEN px ELSE PriceScale - px,
                                down_px |-> IF side = "UP" THEN PriceScale - px ELSE px ],
                    sizeParams |-> sizeParams,
                    side |-> side,
                    size |-> 0 ]

\* size = policyEngine.sizeForTrade(state, features, sizeParams, side)
SizeCall ==
    /\ pc = "call" /\ probe.fn = "sizeForTrade"
    /\ probe' = [probe EXCEPT !.size = sizeForTrade(probe.state, probe.sizeParams, probe.side)]
    /\ pc' = "returned"
    /\ UNCHANGED idleVars

SpecSize == InitSize /\ [][SizeCall]_vars

\* ------------------------------------------------- inventoryOkAndRebalance
\* Inventory is kept in millionths of a share, rebalance_ratio_R in percent.
InvScale == 10^6
\* const eps = 1e-6
InventoryEps == 1

\* inventoryOkAndRebalance switching sides without looking at the other side's
\* headroom
inventoryOkAndRebalance_BlindSwitch(inventory, inventoryParams, proposedSide) ==
    LET total == inventory.inv_up_shares + inventory.inv_down_shares
        R == inventoryParams.rebalance_ratio_R
    IN  IF ~inventoryParams.defined THEN proposedSide
        ELSE IF total >= inventoryParams.max_total_shares THEN "null"
        ELSE IF proposedSide = "UP"
                /\ inventory.inv_up_shares >= inventoryParams.max_up_shares THEN "null"
        ELSE IF proposedSide = "DOWN"
                /\ inventory.inv_down_shares >= inventoryParams.max_down_shares THEN "null"
        ELSE IF inventory.inv_up_shares > InventoryEps
                /\ inventory.inv_down_shares > InventoryEps
        THEN IF inventory.inv_up_shares * 100 > R * total /\ proposedSide = "UP"
             THEN "DOWN"
             ELSE IF inventory.inv_up_shares * 100 < (100 - R) * total
                     /\ proposedSide = "DOWN"
             THEN "UP"
             ELSE proposedSide
        ELSE proposedSide

\* inventoryOkAndRebalance looking at the skew before the proposed side's own cap
inventoryOkAndRebalance_SwitchFirst(inventory, inventoryParams, proposedSide) ==
    LET total == inventory.inv_up_shares + inventory.inv_down_shares
        R == inventoryParams.rebalance_ratio_R
    IN  IF ~inventoryParams.defined THEN proposedSide
        ELSE IF total >= inventoryParams.max_total_shares THEN "null"
        ELSE IF inventory.inv_up_shares > InventoryEps
                /\ inventory.inv_down_shares > InventoryEps
                /\ inventory.inv_up_shares * 100 > R * total /\ proposedSide = "UP"
        THEN IF inventory.inv_down_shares < inventoryParams.max_down_shares
             THEN "DOWN" ELSE "null"
        ELSE IF inventory.inv_up_shares > InventoryEps
                /\ inventory.inv_down_shares > InventoryEps
                /\ inventory.inv_up_shares * 100 < (100 - R) * total /\ proposedSide = "DOWN"
        THEN IF inventory.inv_up_shares < inventoryParams.max_up_shares
             THEN "UP" ELSE "null"
        ELSE IF proposedSide = "UP"
                /\ inventory.inv_up_shares >= inventoryParams.max_up_shares THEN "null"
        ELSE IF proposedSide = "DOWN"
                /\ inventory.inv_down_shares >= inventoryParams.max_down_shares THEN "null"
        ELSE proposedSide

\* The side to trade, "null" for none; inventoryParams.defined is FALSE for
\* undefined.  ratio > R is inv_up / total > R / 100, cross-multiplied.
inventoryOkAndRebalance(inventory, inventoryParams, proposedSide) ==
    LET total == inventory.inv_up_shares + inventory.inv_down_shares
        R == inventoryParams.rebalance_ratio_R
    IN  IF ~inventoryParams.defined THEN proposedSide
        ELSE IF total >= inventoryParams.max_total_shares THEN "null"
        ELSE IF proposedSide = "UP"
                /\ inventory.inv_up_shares >= inventoryParams.max_up_shares THEN "null"
        ELSE IF proposedSide = "DOWN"
                /\ inventory.inv_down_shares >= inventoryParams.max_down_shares THEN "null"
        ELSE IF inventory.inv_up_shares > InventoryEps
                /\ inventory.inv_down_shares > InventoryEps
        THEN IF inventory.inv_up_shares * 100 > R * total /\ proposedSide = "UP"
             THEN IF inventory.inv_down_shares < inventoryParams.max_down_shares
                     /\ total < inventoryParams.max_total_shares
                  THEN "DOWN" ELSE "null"
             ELSE IF inventory.inv_up_shares * 100 < (100 - R) * total
                     /\ proposedSide = "DOWN"
             THEN IF inventory.inv_up_shares < inventoryParams.max_up_shares
                     /\ total < inventoryParams.max_total_shares
                  THEN "UP" ELSE "null"
             ELSE proposedSide
        ELSE proposedSide

\* Shares held on one side: none, a trace at and just above eps, and amounts
\* below, next to and above the caps tried.
InventoryLevels == { 0, 1, 2, InvScale, 3 * InvScale, 4 * InvScale - InvScale \div 2,
                     4 * InvScale, 5 * InvScale }
InventoryParamsTried ==
    { [ defined |-> FALSE, max_up_shares |-> 0, max_down_shares |-> 0,
        max_total_shares |-> 0, rebalance_ratio_R |-> 0 ],
      [ defined |-> TRUE, max_up_shares |-> 4 * InvScale, max_down_shares |-> 4 * InvScale,
        max_total_shares |-> 6 * InvScale, rebalance_ratio_R |-> 60 ],
      [ defined |-> TRUE, max_up_shares |-> 5 * InvScale, max_down_shares |-> InvScale,
        max_total_shares |-> 10 * InvScale, rebalance_ratio_R |-> 70 ],
      [ defined |-> TRUE, max_up_shares |-> InvScale, max_down_shares |-> 5 * InvScale,
        max_total_shares |-> 10 * InvScale, rebalance_ratio_R |-> 70 ] }

InitInventory ==
    /\ Idle
    /\ pc = "call"
    /\ \E up \in InventoryLevels, down \in InventoryLevels,
          inventoryParams \in InventoryParamsTried, proposedSide \in {"UP", "DOWN"} :
          probe = [ fn |-> "inventoryOkAndRebalance",
                    inventory |-> [ inv_up_shares |-> up, inv_down_shares |-> down ],
                    inventoryParams |-> inventoryParams,
                    proposedSide |-> proposedSide,
                    side |-> "null" ]

\* side = policyEngine.inventoryOkAndRebalance(inventory, inventoryParams, proposedSide)
InventoryCall ==
    /\ pc = "call" /\ probe.fn = "inventoryOkAndRebalance"
    /\ probe' = [probe EXCEPT !.side = inventoryOkAndRebalance(probe.inventory,
                                            probe.inventoryParams, probe.proposedSide)]
    /\ pc' = "returned"
    /\ UNCHANGED idleVars

SpecInventory == InitInventory /\ [][InventoryCall]_vars

\* --------------------------------------------------------------- cadenceOk
\* Timestamps of cadenceOk are milliseconds.  lastTradeTs is a record whose
\* isNull is TRUE for null; cadenceParams.defined is FALSE for undefined.

\* cadenceOk letting a trade through when a count has just reached its cap
cadenceOk_CapInclusive(lastTradeTs, recentTradeTimes, cadenceParams, currentTs) ==
    LET trades1s == Len(SelectSeq(recentTradeTimes,
                        LAMBDA ts : ts >= currentTs - 1000 /\ ts <= currentTs))
        trades60s == Len(SelectSeq(recentTradeTimes,
                        LAMBDA ts : ts >= currentTs - 60000 /\ ts <= currentTs))
    IN  IF ~cadenceParams.defined THEN TRUE
        ELSE IF ~lastTradeTs.isNull
                /\ currentTs - lastTradeTs.ts < cadenceParams.min_inter_trade_ms THEN FALSE
        ELSE IF trades1s > cadenceParams.max_trades_per_sec THEN FALSE
        ELSE IF trades60s > cadenceParams.max_trades_per_min THEN FALSE
        ELSE TRUE

cadenceOk(lastTradeTs, recentTradeTimes, cadenceParams, currentTs) ==
    LET window1sStart == currentTs - 1000
        trades1s == Len(SelectSeq(recentTradeTimes,
                        LAMBDA ts : ts >= window1sStart /\ ts <= currentTs))
        window60sStart == currentTs - 60000
        trades60s == Len(SelectSeq(recentTradeTimes,
                        LAMBDA ts : ts >= window60sStart /\ ts <= currentTs))
    IN  IF ~cadenceParams.defined THEN TRUE
        ELSE IF ~lastTradeTs.isNull
                /\ currentTs - lastTradeTs.ts < cadenceParams.min_inter_trade_ms THEN FALSE
        ELSE IF trades1s >= cadenceParams.max_trades_per_sec THEN FALSE
        ELSE IF trades60s >= cadenceParams.max_trades_per_min THEN FALSE
        ELSE TRUE

\* The instant of the call, and the ages (ms before it) of the earlier trades
\* tried: at the call, on and next to the edges of both rolling windows.
CurrentTsTried == {100000}
TradeAges == {0, 1000, 1001, 60000, 60001}
\* Ages of the last trade tried: on and next to the minimum interval.
LastTradeAges == {0, 499, 500}
\* Longest buffer of recent trades tried.
MaxRecentTrades == 3
CadenceParamsTried ==
    { [ defined |-> FALSE, min_inter_trade_ms |-> 0,
        max_trades_per_sec |-> 0, max_trades_per_min |-> 0 ] }
    \cup { [ defined |-> TRUE, min_inter_trade_ms |-> gap,
             max_trades_per_sec |-> perSec, max_trades_per_min |-> perMin ] :
             gap \in {0, 500}, perSec \in {1, 2}, perMin \in {2, 3} }

InitCadence ==
    /\ Idle
    /\ pc = "call"
    /\ \E currentTs \in CurrentTsTried, cadenceParams \in CadenceParamsTried :
       \E n \in 0..MaxRecentTrades :
       \E ages \in [1..n -> TradeAges] :
       \E lastTradeTs \in { [ isNull |-> TRUE, ts |-> 0 ] }
              \cup { [ isNull |-> FALSE, ts |-> currentTs - age ] : age \in LastTradeAges } :
          probe = [ fn |-> "cadenceOk",
                    lastTradeTs |-> lastTradeTs,
                    recentTradeTimes |-> [ i \in 1..n |-> currentTs - ages[i] ],
                    cadenceParams |-> cadenceParams,
                    currentTs |-> currentTs,
                    ok |-> FALSE ]

\* ok = policyEngine.cadenceOk(lastTradeTs, recentTradeTimes, cadenceParams, currentTs)
CadenceCall ==
    /\ pc = "call" /\ probe.fn = "cadenceOk"
    /\ probe' = [probe EXCEPT !.ok = cadenceOk(probe.lastTradeTs, probe.recentTradeTimes,
                                               probe.cadenceParams, probe.currentTs)]
    /\ pc' = "returned"
    /\ UNCHANGED idleVars

SpecCadence == InitCadence /\ [][CadenceCall]_vars

\* ------------------------------------------------------- matchPaperToWatch
\* The matching loop over the trades parsed from the CSV files.  A trade is a
\* record (market, timestamp in ms, side); a match keeps the fields of
\* TradeMatch that identify the two trades.

\* the test of the scan taking a replica trade that is no closer than the best
Closer_OrEqual(dt, windowMs, minDt) == dt <= windowMs /\ dt <= minDt

\* if (dt <= windowMs && dt < minDt)
Closer(dt, windowMs, minDt) == dt <= windowMs /\ dt < minDt

TradeMatch(market, watchTrade, paperTrade, dt) ==
    [ watch_timestamp |-> watchTrade.timestamp,
      paper_timestamp |-> paperTrade.timestamp,
      dt_ms |-> dt,
      market |-> market,
      watch_side |-> watchTrade.side,
      paper_side |-> paperTrade.side,
      same_side |-> watchTrade.side = paperTrade.side ]

\* The inner loop from paper trade i on: <<bestMatch>> or << >> for null.
RECURSIVE ScanPaperTrades(_, _, _, _, _, _, _)
ScanPaperTrades(market, watchTrade, paperTrades, windowMs, i, minDt, bestMatch) ==
    IF i > Len(paperTrades) THEN bestMatch
    ELSE LET dt == Abs(paperTrades[i].timestamp - watchTrade.timestamp)
         IN  IF Closer(dt, windowMs, minDt)
             THEN ScanPaperTrades(market, watchTrade, paperTrades, windowMs, i + 1, dt,
                                  << TradeMatch(market, watchTrade, paperTrades[i], dt) >>)
             ELSE ScanPaperTrades(market, watchTrade, paperTrades, windowMs, i + 1,
                                  minDt, bestMatch)

\* The outer loop from watch trade k on: the matches pushed.
RECURSIVE MatchWatchTrades(_, _, _, _, _)
MatchWatchTrades(market, watchTrades, paperTrades, windowMs, k) ==
    IF k > Len(watchTrades) THEN << >>
    ELSE ScanPaperTrades(market, watchTrades[k], paperTrades, windowMs, 1,
                         windowMs + 1, << >>)
         \o MatchWatchTrades(market, watchTrades, paperTrades, windowMs, k + 1)

TradesOfMarket(allTrades, market) == SelectSeq(allTrades, LAMBDA t : t.market = market)

\* The stats map: per market the matches and the three counts.
matchPaperToWatch(allWatchTrades, allPaperTrades, windowMs) ==
    LET markets == { allWatchTrades[i].market : i \in DOMAIN allWatchTrades }
                   \cup { allPaperTrades[i].market : i \in DOMAIN allPaperTrades }
    IN  [ market \in markets |->
            LET watchTrades == TradesOfMarket(allWatchTrades, market)
                paperTrades == TradesOfMarket(allPaperTrades, market)
                matches == MatchWatchTrades(market, watchTrades, paperTrades, windowMs, 1)
            IN  [ market |-> market,
                  matches |-> matches,
                  matched_count |-> Len(matches),
                  watch_total |-> Len(watchTrades),
                  paper_total |-> Len(paperTrades) ] ]

\* Longest lists of WATCH and of PAPER trades tried.
MaxWatchTrades == 2
MaxPaperTrades == 2
\* Trades tried: the example of the documentation (reference at 1000,
\* replicas at 1500 and 4000), replicas equally far on both sides, on and just
\* past the window, and a second market.
WindowsTried == {2000}
WatchTradesTried ==
    { [ market |-> "BTC_15m", timestamp |-> 1000, side |-> "UP" ],
      [ market |-> "BTC_15m", timestamp |-> 2500, side |-> "DOWN" ],
      [ market |-> "ETH_15m", timestamp |-> 1000, side |-> "UP" ] }
PaperTradesTried ==
    { [ market |-> "BTC_15m", timestamp |-> ts, side |-> side ] :
         ts \in {500, 1500, 3000, 3001, 4000}, side \in {"UP", "DOWN"} }
    \cup { [ market |-> "ETH_15m", timestamp |-> 1500, side |-> "UP" ] }

InitMatch ==
    /\ Idle
    /\ pc = "call"
    /\ \E windowMs \in WindowsTried :
       \E nw \in 0..MaxWatchTrades, np \in 0..MaxPaperTrades :
       \E watch \in [1..nw -> WatchTradesTried], paper \in [1..np -> PaperTradesTried] :
          probe = [ fn |-> "matchPaperToWatch",
                    allWatchTrades |-> watch,
                    allPaperTrades |-> paper,
                    windowMs |-> windowMs,
                    stats |-> EmptyMap ]

\* stats = matchPaperToWatch(csvDir, windowMs), after the files are parsed
MatchCall ==
    /\ pc = "call" /\ probe.fn = "matchPaperToWatch"
    /\ probe' = [probe EXCEPT !.stats = matchPaperToWatch(probe.allWatchTrades,
                                            probe.allPaperTrades, probe.windowMs)]
    /\ pc' = "returned"
    /\ UNCHANGED idleVars

SpecMatch == InitMatch /\ [][MatchCall]_vars

\* ------------------------------------------------------------- entrySignal
\* A band bound is a record whose isNull is TRUE for null; entryParams.defined
\* is FALSE for undefined.  Deltas and the threshold are in 1/10000 like prices.
NullBound == [ isNull |-> TRUE, value |-> 0 ]
Bound(v) == [ isNull |-> FALSE, value |-> v ]

\* the band test with a null bound read as "no limit on that end"
InBand_NullIsOpen(px, min, max) ==
    (min.isNull \/ px >= min.value) /\ (max.isNull \/ px <= max.value)

\* min !== null && max !== null && px >= min && px <= max
InBand(px, min, max) ==
    ~min.isNull /\ ~max.isNull /\ px >= min.value /\ px <= max.value

\* features.<field> ?? fallback
FeatureOr(features, field, fallback) ==
    IF field \in DOMAIN features THEN features[field] ELSE fallback

\* The signal left after the mode test of one side: momentum clears it when
\* delta < threshold, reversion when delta > -threshold.
ModeSignal(mode, delta, threshold) ==
    CASE mode = "momentum" -> ~(delta < threshold)
      [] mode = "reversion" -> ~(delta > -threshold)
      [] OTHER -> TRUE

\* upReason / downReason after the mode test
ModeReason(mode, signal, side) ==
    CASE mode = "momentum" -> IF signal THEN "momentum_met" ELSE "momentum_not_met"
      [] mode = "reversion" -> IF signal THEN "reversion_met" ELSE "reversion_not_met"
      [] OTHER -> IF side = "UP" THEN "up_price_band" ELSE "down_price_band"

\* entrySignal with the DOWN block placed before the UP block
entrySignal_DownFirst(state, features, entryParams) ==
    LET upInBand == InBand(state.up_px, entryParams.up_price_min, entryParams.up_price_max)
        downInBand == InBand(state.down_px, entryParams.down_price_min,
                             entryParams.down_price_max)
        delta5s == FeatureOr(features, "delta_5s_side_px", 0)
        delta5sDown == FeatureOr(features, "delta_5s_down_px", delta5s)
        upSignal == ModeSignal(entryParams.mode, delta5s, entryParams.momentum_threshold)
        downSignal == ModeSignal(entryParams.mode, delta5sDown,
                                 entryParams.momentum_threshold)
    IN  IF ~entryParams.defined
        THEN [ should_trade |-> FALSE, side |-> "null", reason |-> "no_entry_params" ]
        ELSE IF downInBand /\ downSignal
        THEN [ should_trade |-> TRUE, side |-> "DOWN",
               reason |-> ModeReason(entryParams.mode, downSignal, "DOWN") ]
        ELSE IF upInBand /\ upSignal
        THEN [ should_trade |-> TRUE, side |-> "UP",
               reason |-> ModeReason(entryParams.mode, upSignal, "UP") ]
        ELSE [ should_trade |-> FALSE, side |-> "null", reason |-> "no_band_match" ]

\* entrySignal without the guard on a missing configuration
entrySignal_NoParamsGuard(state, features, entryParams) ==
    LET upInBand == InBand(state.up_px, entryParams.up_price_min, entryParams.up_price_max)
        downInBand == InBand(state.down_px, entryParams.down_price_min,
                             entryParams.down_price_max)
        delta5s == FeatureOr(features, "delta_5s_side_px", 0)
        delta5sDown == FeatureOr(features, "delta_5s_down_px", delta5s)
        upSignal == ModeSignal(entryParams.mode, delta5s, entryParams.momentum_threshold)
        downSignal == ModeSignal(entryParams.mode, delta5sDown,
                                 entryParams.momentum_threshold)
    IN  IF upInBand /\ upSignal
        THEN [ should_trade |-> TRUE, side |-> "UP",
               reason |-> ModeReason(entryParams.mode, upSignal, "UP") ]
        ELSE IF downInBand /\ downSignal
        THEN [ should_trade |-> TRUE, side |-> "DOWN",
               reason |-> ModeReason(entryParams.mode, downSignal, "DOWN") ]
        ELSE [ should_trade |-> FALSE, side |-> "null", reason |-> "no_band_match" ]

\* The EntrySignal record; side is "null" for null.
entrySignal(state, features, entryParams) ==
    LET upInBand == InBand(state.up_px, entryParams.up_price_min, entryParams.up_price_max)
        downInBand == InBand(state.down_px, entryParams.down_price_min,
                             entryParams.down_price_max)
        delta5s == FeatureOr(features, "delta_5s_side_px", 0)
        delta5sDown == FeatureOr(features, "delta_5s_down_px", delta5s)
        upSignal == ModeSignal(entryParams.mode, delta5s, entryParams.momentum_threshold)
        downSignal == ModeSignal(entryParams.mode, delta5sDown,
                                 entryParams.momentum_threshold)
    IN  IF ~entryParams.defined
        THEN [ should_trade |-> FALSE, side |-> "null", reason |-> "no_entry_params" ]
        ELSE IF upInBand /\ upSignal
        THEN [ should_trade |-> TRUE, side |-> "UP",
               reason |-> ModeReason(entryParams.mode, upSignal, "UP") ]
        ELSE IF downInBand /\ downSignal
        THEN [ should_trade |-> TRUE, side |-> "DOWN",
               reason |-> ModeReason(entryParams.mode, downSignal, "DOWN") ]
        ELSE [ should_trade |-> FALSE, side |-> "null", reason |-> "no_band_match" ]

\* Bands tried (both bounds set, one bound null, both null) and prices on,
\* inside and just outside them.
BandsTried == { <<Bound(4000), Bound(6000)>>, <<NullBound, Bound(6000)>>,
                <<Bound(4000), NullBound>> }
EntryPrices == { <<4000, 6000>>, <<5000, 5000>>, <<6001, 3999>>, <<6001, 5000>>,
                 <<5000, 3999>> }
\* momentum_threshold as the params file may give it: 0.01, and 0.
ThresholdsTried == {100, 0}
EntryParamsTried ==
    { [ defined |-> FALSE, up_price_min |-> NullBound, up_price_max |-> NullBound,
        down_price_min |-> NullBound, down_price_max |-> NullBound,
        mode |-> "none", momentum_threshold |-> 0 ] }
    \cup { [ defined |-> TRUE, up_price_min |-> up[1], up_price_max |-> up[2],
             down_price_min |-> down[1], down_price_max |-> down[2],
             mode |-> mode, momentum_threshold |-> threshold ] :
             up \in BandsTried, down \in BandsTried,
             mode \in {"momentum", "reversion", "none"},
             threshold \in ThresholdsTried }
\* 5 s deltas tried: on and next to the threshold and its negative.
DeltasTried == {-101, -100, -99, 0, 99, 100, 101}
\* Features objects given to entrySignal: those computeFeatures returns for a
\* history of one sample 5 s back, and objects with either 5 s delta left out.
FeaturesTried(state) ==
    { computeFeatures(state, history) :
        history \in { << >> } \cup
            { << [ timestamp |-> state.timestamp - 5, up_px |-> state.up_px - d,
                   down_px |-> state.down_px + d ] >> : d \in {-100, 100} } }
    \cup { ("distance_from_50" :> Abs(state.up_px - PriceScale \div 2))
           @@ ("delta_5s_side_px" :> d) : d \in DeltasTried }
    \cup { ("distance_from_50" :> Abs(state.up_px - PriceScale \div 2))
           @@ ("delta_5s_down_px" :> d) : d \in DeltasTried }
    \cup { ("distance_from_50" :> Abs(state.up_px - PriceScale \div 2))
           @@ ("delta_5s_side_px" :> d) @@ ("delta_5s_down_px" :> e) :
           d \in {-100, 99, 100}, e \in {-100, -99, 100} }

InitEntry ==
    /\ Idle
    /\ pc = "call"
    /\ \E pp \in EntryPrices, entryParams \in EntryParamsTried :
       LET state == [ timestamp |-> Epoch, up_px |-> pp[1], down_px |-> pp[2] ]
       IN  \E features \in FeaturesTried(state) :
              probe = [ fn |-> "entrySignal",
                        state |-> state,
                        features |-> features,
                        entryParams |-> entryParams,
                        signal |-> [ should_trade |-> FALSE, side |-> "null",
                                     reason |-> "" ] ]

\* signal = policyEngine.entrySignal(state, features, entryParams)
EntryCall ==
    /\ pc = "call" /\ probe.fn = "entrySignal"
    /\ probe' = [probe EXCEPT !.signal = entrySignal(probe.state, probe.features,
                                                     probe.entryParams)]
    /\ pc' = "returned"
    /\ UNCHANGED idleVars

SpecEntry == InitEntry /\ [][EntryCall]_vars

\* The four policy components side by side, each called once.
InitPolicy == InitEntry \/ InitSize \/ InitInventory \/ InitCadence
PolicyCall == EntryCall \/ SizeCall \/ InventoryCall \/ CadenceCall
SpecPolicy == InitPolicy /\ [][PolicyCall]_vars

\* ------------------------- discoverMarketsFromWatchers: the watched trades
\* The trade loop of discoverMarketsFromWatchers on its own.  An activity of
\* the data API is a record (transactionHash, inWindow: its timestamp is
\* within the last 48 hours, ownWallet: proxyWallet and user are the watched
\* address); processedTrades is the module's set of trade keys and handed
\* the trades passed to marketTracker.processTrade, in order.
WatchedAddresses == {"0xa", "0xb"}
TransactionHashes == {"h1", "h2"}
Activities ==
    [ transactionHash : TransactionHashes, inWindow : BOOLEAN, ownWallet : BOOLEAN ]
\* Longest activity list of one poll, and polls made.
MaxActivities == 2
MaxPolls == 3

\* tradeKey = `${address}:${activity.transactionHash}`
TradeKey(address, activity) == <<address, activity.transactionHash>>

\* the trade loop without if (processedTrades.has(tradeKey)) continue
RECURSIVE ScanActivities_NoSeenCheck(_, _, _, _, _)
ScanActivities_NoSeenCheck(address, activities, i, processed, handed) ==
    IF i > Len(activities) THEN [ processedTrades |-> processed, handed |-> handed ]
    ELSE LET activity == activities[i]
             tradeKey == TradeKey(address, activity)
         IN  IF ~activity.inWindow \/ ~activity.ownWallet
             THEN ScanActivities_NoSeenCheck(address, activities, i + 1, processed, handed)
             ELSE ScanActivities_NoSeenCheck(address, activities, i + 1,
                                             processed \cup {tradeKey},
                                             Append(handed, tradeKey))

\* for (const activity of activities) { ... }
RECURSIVE ScanActivities(_, _, _, _, _)
ScanActivities(address, activities, i, processed, handed) ==
    IF i > Len(activities) THEN [ processedTrades |-> processed, handed |-> handed ]
    ELSE LET activity == activities[i]
             tradeKey == TradeKey(address, activity)
         IN  IF ~activity.inWindow \/ ~activity.ownWallet
             THEN ScanActivities(address, activities, i + 1, processed, handed)
             ELSE IF tradeKey \in processed
             THEN ScanActivities(address, activities, i + 1, processed, handed)
             ELSE ScanActivities(address, activities, i + 1,
                                 processed \cup {tradeKey}, Append(handed, tradeKey))

\* The monitor before its first poll.
InitWatch ==
    /\ Idle
    /\ pc = "call"
    /\ probe = [ fn |-> "discoverMarketsFromWatchers", polls |-> 0,
                 address |-> "0xa", activities |-> << >>,
                 processedTrades |-> {}, handed |-> << >> ]

\* One watched address of one poll: activities = await fetchData(apiUrl) and
\* the loop over them.
WatchPoll ==
    /\ pc = "call" /\ probe.fn = "discoverMarketsFromWatchers"
    /\ probe.polls < MaxPolls
    /\ \E address \in WatchedAddresses, n \in 0..MaxActivities :
       \E activities \in [1..n -> Activities] :
          LET scan == ScanActivities(address, activities, 1, probe.processedTrades,
                                     probe.handed)
          IN  probe' = [probe EXCEPT !.polls = @ + 1,
                                     !.address = address,
                                     !.activities = activities,
                                     !.processedTrades = scan.processedTrades,
                                     !.handed = scan.handed]
    /\ UNCHANGED pc
    /\ UNCHANGED idleVars

SpecWatch == InitWatch /\ [][WatchPoll]_vars

\* ----------------------------------- buildPositionIncrementally on its own
\* Latest time of a building tick, in seconds after Epoch.
MaxBuildTime == 6
\* Mid prices <<UP, DOWN>> of the markets being built: an even market, where
\* one proposal fills a side's target, and a lopsided one, where the cheap
\* side takes many.
BuildPricesTried == { <<5000, 5000>>, <<9500, 500>> }
\* Values of the two Math.random() draws of the gap: both ends of each of the
\* four tiers.
GapRollsTried == {0, 799, 800, 879, 880, 939, 940, 999}
GapsTried == {0, 999}
\* now + gap over those draws
NextTradeTimesTried(t) ==
    { t + CeilDiv(GapMs(g, r), 1000) : g \in GapRollsTried, r \in GapsTried }

\* Two markets with both assets and prices known and no expiry date, so that
\* neither ever enters the pre-expiry window, and the starting capital.
InitBuild ==
    /\ now = Epoch /\ isRunning = TRUE /\ pc = "call" /\ loopNow = Epoch
    /\ lastCleanupTime = 0 /\ todo = MarketIds
    /\ currentCapital = PAPER_STARTING_CAPITAL
    /\ totalPnL = 0 /\ totalTrades = 0 /\ totalCycles = 0
    /\ positions = EmptyMap /\ buildingPositions = EmptyMap /\ processedCycles = << >>
    /\ proactivelyDiscoveredIds = {} /\ fetchedSlugs = {}
    /\ trackerMarkets = EmptyMap /\ timers = {} /\ arbLog = << >>
    /\ clearSeen = {} /\ envChanges = 0
    /\ \E pt \in BuildPricesTried, pp \in BuildPricesTried :
          discoveredMarkets =
              [ id \in MarketIds |->
                  [ assetUp |-> TRUE, assetDown |-> TRUE, endDate |-> 0,
                    priceUp |-> IF id = "t1" THEN pt[1] ELSE pp[1],
                    priceDown |-> IF id = "t1" THEN pt[2] ELSE pp[2] ] ]
    /\ probe = [ fn |-> "buildPositionIncrementally", conditionId |-> "none",
                 buildingPositions |-> EmptyMap, currentCapital |-> PAPER_STARTING_CAPITAL,
                 totalTrades |-> 0 ]

\* await buildPositionIncrementally(market); probe keeps what the call found
BuildCall(id) ==
    /\ pc = "call" /\ probe.fn = "buildPositionIncrementally"
    /\ id \in todo /\ todo' = todo \ {id}
    /\ Has(discoveredMarkets, id) /\ ~Has(positions, id)
    /\ \E b \in buildPositionIncrementallyDrawing(id, discoveredMarkets[id],
                    buildingPositions, positions, currentCapital, totalTrades, now,
                    NextTradeTimesTried(now)) :
          /\ buildingPositions' = b.buildingPositions
          /\ positions' = b.positions
          /\ currentCapital' = b.currentCapital
          /\ totalTrades' = b.totalTrades
    /\ probe' = [ fn |-> "buildPositionIncrementally", conditionId |-> id,
                  buildingPositions |-> buildingPositions,
                  currentCapital |-> currentCapital, totalTrades |-> totalTrades ]
    /\ UNCHANGED <<now, isRunning, pc, loopNow, lastCleanupTime, totalPnL, totalCycles,
                   marketVars, processedCycles, timers, arbLog, clearSeen>>

\* The for-loop is through; the next iteration starts POLL_INTERVAL_MS later.
BuildWait ==
    /\ pc = "call" /\ probe.fn = "buildPositionIncrementally"
    /\ todo = {}
    /\ now + POLL_INTERVAL_MS <= Epoch + MaxBuildTime
    /\ now' = now + POLL_INTERVAL_MS
    /\ todo' = DOMAIN discoveredMarkets
    /\ UNCHANGED <<isRunning, pc, loopNow, lastCleanupTime, moneyVars, marketVars,
                   posVars, probe>>

NextBuild == (\E id \in MarketIds : BuildCall(id)) \/ BuildWait

SpecBuild == InitBuild /\ [][NextBuild]_vars

\* ------------------------------------ the handlers at their suspension points
\* One pass of price refresh, evaluation and settlement with every handler
\* cut at its awaits: the loop is suspended while the price fetches of a batch
\* are out, while logPaperTrade writes a trade, and while settlePositions
\* fetches a price it does not have.  While it is suspended the clock moves
\* and the purge timers that are due run.
\* Longest time, in seconds after Epoch, the awaits of the pass take together.
MaxAwait == 2
\* What p1 holds at the start of the pass: a position inside its arbitrage
\* window, a position past its expiry with or without known prices, or a
\* position settled before whose purge timer is pending.
HeldTried == {"arbitrage", "expired", "expiredNoPrice", "settled"}
\* What the order book may answer while the pass runs (<<0, 0>> = null).
PricesArriving == BuildPricesTried \cup { <<0, 0>> }

InitSuspended ==
    /\ now = Epoch /\ isRunning = TRUE /\ pc = "prices" /\ loopNow = Epoch
    /\ lastCleanupTime = Epoch /\ todo = MarketIds
    /\ currentCapital = PAPER_STARTING_CAPITAL
    /\ totalPnL = 0 /\ totalTrades = 2 /\ totalCycles = 0
    /\ buildingPositions = EmptyMap /\ processedCycles = << >>
    /\ proactivelyDiscoveredIds = {} /\ fetchedSlugs = {}
    /\ trackerMarkets = EmptyMap /\ arbLog = << >> /\ clearSeen = {} /\ envChanges = 0
    /\ \E pt \in BuildPricesTried, held \in HeldTried :
          LET building == [ assetUp |-> TRUE, assetDown |-> TRUE, endDate |-> 0,
                            priceUp |-> pt[1], priceDown |-> pt[2] ]
              other == [ assetUp |-> TRUE, assetDown |-> TRUE,
                         endDate |-> IF held = "arbitrage" THEN Epoch + 60 ELSE Epoch - 10,
                         priceUp |-> IF held = "expiredNoPrice" THEN 0 ELSE 9500,
                         priceDown |-> IF held = "expiredNoPrice" THEN 0 ELSE 500 ]
              built == MarketPosition("p1", other,
                           BuildStateOf(<<710, 5000>>, <<690, 4000>>, other, Epoch - 200))
          IN  /\ discoveredMarkets = [ id \in MarketIds |->
                                         IF id = "t1" THEN building ELSE other ]
              /\ positions = [ id \in {"p1"} |->
                                 [built EXCEPT !.isSettled = (held = "settled")] ]
              /\ timers = IF held = "settled"
                          THEN { [conditionId |-> "p1", due |-> Epoch + 1] } ELSE {}
    /\ probe = [ fn |-> "suspended", handler |-> "updatePrices", conditionId |-> "none",
                 awaiting |-> TRUE, left |-> PAPER_STARTING_CAPITAL ]

\* The loop is inside an await that gives the event loop a turn.
Suspended ==
    /\ probe.fn = "suspended"
    /\ \/ pc = "prices" /\ todo # {}
       \/ pc \in {"logUp", "logDown", "logArb", "fetch"} /\ probe.awaiting

\* The callback of one market's pair of fetches, in whatever order the
\* fetches of the batch come back (updatePrices, lines 1016-1031).
PriceCallback(id) ==
    /\ pc = "prices" /\ probe.fn = "suspended"
    /\ id \in todo /\ todo' = todo \ {id}
    /\ \E answer \in PricesArriving :
          LET fetched == [ x \in DOMAIN discoveredMarkets |->
                             IF x = id THEN answer ELSE <<0, 0>> ]
              u == updatePrices(discoveredMarkets, positions, fetched, loopNow)
          IN  /\ discoveredMarkets' = u.discoveredMarkets
              /\ positions' = u.positions
    /\ UNCHANGED <<now, isRunning, pc, loopNow, lastCleanupTime, moneyVars,
                   proactivelyDiscoveredIds, fetchedSlugs, trackerMarkets, envChanges,
                   buildingPositions, processedCycles, timers, arbLog, clearSeen, probe>>

\* await updatePrices() returns and the for-loop over discoveredMarkets starts
PricesDone ==
    /\ pc = "prices" /\ probe.fn = "suspended"
    /\ todo = {}
    /\ pc' = "process"
    /\ todo' = DOMAIN discoveredMarkets
    /\ UNCHANGED <<now, isRunning, loopNow, lastCleanupTime, moneyVars, marketVars,
                   posVars, probe>>

\* The call passes the guards before the timing gate: both assets, both
\* prices, and not inside the pre-expiry window.
PassesGuards(market, t) ==
    /\ market.assetUp /\ market.assetDown
    /\ market.priceUp > 0 /\ market.priceDown > 0
    /\ ~(market.endDate > 0 /\ EndDateMs(market.endDate) - t < EXPIRATION_WINDOW_MS)
\* The BuildStates a call may take through the timing gate: the one it finds,
\* once its time has come, or the one it creates.
ThroughGate(id, market, building, capital, t) ==
    IF ~PassesGuards(market, t) THEN {}
    ELSE IF Has(building, id)
         THEN IF t < building[id].nextTradeTime THEN {} ELSE { building[id] }
    ELSE NewBuildStates(id, market, capital, t)

\* What the loop knows of the call it is inside.
Suspension(handler, id, awaiting, left) ==
    [ fn |-> "suspended", handler |-> handler, conditionId |-> id,
      awaiting |-> awaiting, left |-> left,
      start |-> [ buildingPositions |-> buildingPositions, positions |-> positions,
                  currentCapital |-> currentCapital, totalTrades |-> totalTrades,
                  now |-> now ] ]

\* buildPositionIncrementally returning before the timing gate or at it
BuildReturns(id) ==
    /\ pc = "process" /\ probe.fn = "suspended"
    /\ id \in todo /\ todo' = todo \ {id}
    /\ Branch(id) = "build"
    /\ ThroughGate(id, discoveredMarkets[id], buildingPositions, currentCapital, now) = {}
    /\ \E b \in buildPositionIncrementallyDrawing(id, discoveredMarkets[id],
                    buildingPositions, positions, currentCapital, totalTrades, now,
                    NextTradeTimesTried(now)) :
          /\ buildingPositions' = b.buildingPositions
          /\ positions' = b.positions
          /\ currentCapital' = b.currentCapital
          /\ totalTrades' = b.totalTrades
    /\ UNCHANGED <<now, isRunning, pc, loopNow, lastCleanupTime, totalPnL, totalCycles,
                   marketVars, processedCycles, timers, arbLog, clearSeen, probe>>

\* buildPositionIncrementally from the timing gate to await logPaperTrade of
\* the UP trade (lines 1128-1315)
BuildUpBlock(id) ==
    /\ pc = "process" /\ probe.fn = "suspended"
    /\ id \in todo /\ todo' = todo \ {id}
    /\ Branch(id) = "build"
    /\ \E bs0 \in ThroughGate(id, discoveredMarkets[id], buildingPositions,
                              currentCapital, now) :
       \E plan \in TickPlans(bs0, discoveredMarkets[id], currentCapital, now) :
          LET up == ExecuteUp(plan.buildState, discoveredMarkets[id], currentCapital,
                              totalTrades, plan.trades)
          IN  /\ buildingPositions' = Put(buildingPositions, id, up.buildState)
              /\ currentCapital' = up.currentCapital
              /\ totalTrades' = up.totalTrades
              /\ probe' = [ Suspension("buildPositionIncrementally", id, up.traded,
                                       up.currentCapital)
                            EXCEPT !.start.buildingPositions =
                                       IF Has(buildingPositions, id) THEN buildingPositions
                                       ELSE Put(buildingPositions, id, bs0) ]
                          @@ [ trades |-> plan.trades ]
    /\ pc' = "logUp"
    /\ UNCHANGED <<now, isRunning, loopNow, lastCleanupTime, totalPnL, totalCycles,
                   marketVars, positions, processedCycles, timers, arbLog, clearSeen>>

\* ... from there to await logPaperTrade of the DOWN trade (lines 1319-1345)
BuildDownBlock ==
    /\ pc = "logUp" /\ probe.fn = "suspended"
    /\ LET id == probe.conditionId
           down == ExecuteDown(buildingPositions[id], discoveredMarkets[id],
                               currentCapital, totalTrades, probe.trades)
       IN  /\ buildingPositions' = Put(buildingPositions, id, down.buildState)
           /\ currentCapital' = down.currentCapital
           /\ totalTrades' = down.totalTrades
           /\ probe' = [probe EXCEPT !.awaiting = down.traded,
                                     !.left = down.currentCapital]
    /\ pc' = "logDown"
    /\ UNCHANGED <<now, isRunning, loopNow, lastCleanupTime, todo, totalPnL, totalCycles,
                   marketVars, positions, processedCycles, timers, arbLog, clearSeen>>

\* ... and to its end (lines 1350-1366), with the const now of the call
BuildEnd ==
    /\ pc = "logDown" /\ probe.fn = "suspended"
    /\ \E nt \in NextTradeTimesTried(probe.start.now) :
          buildingPositions' =
              [buildingPositions EXCEPT ![probe.conditionId] =
                  [@ EXCEPT !.lastTradeTime = probe.start.now, !.nextTradeTime = nt]]
    /\ pc' = "process"
    /\ probe' = [probe EXCEPT !.awaiting = FALSE]
    /\ UNCHANGED <<now, isRunning, loopNow, lastCleanupTime, todo, moneyVars, marketVars,
                   positions, processedCycles, timers, arbLog, clearSeen>>

\* executeArbitrageTrade to its await logPaperTrade (lines 1422-1484)
ArbitrageBlock(id) ==
    /\ pc = "process" /\ probe.fn = "suspended"
    /\ id \in todo /\ todo' = todo \ {id}
    /\ Branch(id) = "arb"
    /\ LET a == executeArbitrageTrade(positions[id], discoveredMarkets[id], currentCapital,
                                      processedCycles, totalTrades, now)
       IN  /\ positions' = [positions EXCEPT ![id] = a.position]
           /\ currentCapital' = a.currentCapital
           /\ processedCycles' = a.processedCycles
           /\ totalTrades' = a.totalTrades
           /\ arbLog' = arbLog \o a.logged
           /\ probe' = Suspension("executeArbitrageTrade", id, a.logged # << >>,
                                  a.currentCapital)
    /\ pc' = "logArb"
    /\ UNCHANGED <<now, isRunning, loopNow, lastCleanupTime, totalPnL, totalCycles,
                   marketVars, buildingPositions, timers, clearSeen>>

\* ... and to its end
ArbitrageEnd ==
    /\ pc = "logArb" /\ probe.fn = "suspended"
    /\ pc' = "process"
    /\ probe' = [probe EXCEPT !.awaiting = FALSE]
    /\ UNCHANGED <<now, isRunning, loopNow, lastCleanupTime, todo, moneyVars, marketVars,
                   posVars>>

\* SKIP, WAIT and DONE
EvaluationSkip(id) ==
    /\ pc = "process" /\ probe.fn = "suspended"
    /\ id \in todo /\ todo' = todo \ {id}
    /\ Branch(id) \in {"skip", "wait", "done"}
    /\ UNCHANGED <<now, isRunning, pc, loopNow, lastCleanupTime, moneyVars, marketVars,
                   posVars, probe>>

\* settlePositions starts: const now, and the entries its for-loop will
\* not pass over
SettleStart ==
    /\ pc = "process" /\ probe.fn = "suspended"
    /\ todo = {}
    /\ pc' = "settle"
    /\ todo' = DueForSettlement(positions, now)
    /\ UNCHANGED <<now, isRunning, loopNow, lastCleanupTime, moneyVars, marketVars,
                   posVars, probe>>

\* A final price of the position is not known.
PriceMissing(id) ==
    LET final == FinalPrices(positions[id], discoveredMarkets, <<0, 0>>)
    IN  final[1] = 0 \/ final[2] = 0

\* await Promise.all([getOrderBookPrice, getOrderBookPrice]) (lines 1507-1510)
SettleFetch(id) ==
    /\ pc = "settle" /\ probe.fn = "suspended"
    /\ id \in todo
    /\ PriceMissing(id)
    /\ pc' = "fetch"
    /\ probe' = Suspension("settlePositions", id, TRUE, currentCapital)
    /\ UNCHANGED <<now, isRunning, loopNow, lastCleanupTime, todo, moneyVars, marketVars,
                   posVars>>

\* The rest of the for-loop's body: the winner and settlePosition (lines
\* 1511-1520 and 1533-1577)
SettleBlock(id) ==
    /\ probe.fn = "suspended"
    /\ id \in todo /\ todo' = todo \ {id}
    /\ \/ pc = "settle" /\ ~PriceMissing(id)
       \/ pc = "fetch" /\ probe.conditionId = id
    /\ \E answer \in IF pc = "fetch" THEN PricesArriving ELSE { <<0, 0>> } :
          LET st == settlePositions([x \in {id} |-> positions[id]], discoveredMarkets,
                                    answer, now)
          IN  /\ positions' = [positions EXCEPT ![id] = st.positions[id]]
              /\ currentCapital' = currentCapital + st.value
              /\ totalPnL' = totalPnL + st.pnl
              /\ totalCycles' = totalCycles + st.cycles
              /\ timers' = timers \cup st.timers
    /\ pc' = "settle"
    /\ probe' = [probe EXCEPT !.awaiting = FALSE]
    /\ UNCHANGED <<now, isRunning, loopNow, lastCleanupTime, totalTrades, marketVars,
                   buildingPositions, processedCycles, arbLog, clearSeen>>

\* settlePositions returns
SettleEnd ==
    /\ pc = "settle" /\ probe.fn = "suspended"
    /\ todo = {}
    /\ pc' = "done"
    /\ processedCycles' = TrimCycles(processedCycles)
    /\ UNCHANGED <<now, isRunning, loopNow, lastCleanupTime, todo, moneyVars, marketVars,
                   positions, buildingPositions, timers, arbLog, clearSeen, probe>>

\* Time passes while the loop is suspended.
AwaitTakesTime ==
    /\ Suspended
    /\ now < Epoch + MaxAwait
    /\ now' = now + 1
    /\ UNCHANGED <<isRunning, pc, loopNow, lastCleanupTime, todo, moneyVars, marketVars,
                   posVars, probe>>

\* A purge timer that is due runs while the loop is suspended.
TimerRuns == Suspended /\ \E tm \in timers : PurgeTimer(tm)

NextSuspended ==
    \/ \E id \in MarketIds : PriceCallback(id)
    \/ PricesDone
    \/ \E id \in MarketIds : BuildReturns(id)
    \/ \E id \in MarketIds : BuildUpBlock(id)
    \/ BuildDownBlock
    \/ BuildEnd
    \/ \E id \in MarketIds : ArbitrageBlock(id)
    \/ ArbitrageEnd
    \/ \E id \in MarketIds : EvaluationSkip(id)
    \/ SettleStart
    \/ \E id \in MarketIds : SettleFetch(id)
    \/ \E id \in MarketIds : SettleBlock(id)
    \/ SettleEnd
    \/ AwaitTakesTime
    \/ TimerRuns

SpecSuspended == InitSuspended /\ [][NextSuspended]_vars

\* ------------------------------------------------- updatePrices on its own
\* What getOrderBookPrice may return for one asset: a mid price or null (0).
AnswersTried == {0, 5000, 9600}
\* Expiry of the held position's market: none, ahead, passed.
PriceEndDates == {0, Epoch + 60, Epoch - 10}

InitPrices ==
    /\ now = Epoch /\ isRunning = TRUE /\ pc = "call" /\ loopNow = Epoch
    /\ lastCleanupTime = Epoch /\ todo = {}
    /\ currentCapital = PAPER_STARTING_CAPITAL - 500
    /\ totalPnL = 0 /\ totalTrades = 4 /\ totalCycles = 0
    /\ processedCycles = << >> /\ proactivelyDiscoveredIds = {} /\ fetchedSlugs = {}
    /\ trackerMarkets = EmptyMap /\ arbLog = << >> /\ clearSeen = {} /\ envChanges = 0
    /\ timers = {}
    /\ \E endDate \in PriceEndDates, pt \in BuildPricesTried :
          LET building == [ assetUp |-> TRUE, assetDown |-> TRUE, endDate |-> 0,
                            priceUp |-> pt[1], priceDown |-> pt[2] ]
              other == [ assetUp |-> TRUE, assetDown |-> TRUE, endDate |-> endDate,
                         priceUp |-> 9500, priceDown |-> 500 ]
          IN  /\ discoveredMarkets = [ id \in MarketIds |->
                                         IF id = "t1" THEN building ELSE other ]
              /\ buildingPositions = [ id \in {"t1"} |->
                     BuildStateOf(<<300, 5000>>, <<200, 5000>>, building, Epoch - 20) ]
              /\ positions = [ id \in {"p1"} |->
                     MarketPosition("p1", other,
                         BuildStateOf(<<710, 5000>>, <<690, 4000>>, other, Epoch - 200)) ]
    /\ probe = [ fn |-> "updatePrices" ]

\* await updatePrices(), the order book answering or failing per asset
PricesCall ==
    /\ pc = "call" /\ probe.fn = "updatePrices"
    /\ \E fetched \in [DOMAIN discoveredMarkets -> AnswersTried \X AnswersTried] :
          LET u == updatePrices(discoveredMarkets, positions, fetched, now)
          IN  /\ discoveredMarkets' = u.discoveredMarkets
              /\ positions' = u.positions
              /\ probe' = [ fn |-> "updatePrices", fetched |-> fetched,
                            discoveredMarkets |-> discoveredMarkets,
                            positions |-> positions,
                            buildingPositions |-> buildingPositions,
                            currentCapital |-> currentCapital, totalPnL |-> totalPnL,
                            totalTrades |-> totalTrades ]
    /\ pc' = "returned"
    /\ UNCHANGED <<now, isRunning, loopNow, lastCleanupTime, todo, moneyVars,
                   proactivelyDiscoveredIds, fetchedSlugs, trackerMarkets, envChanges,
                   buildingPositions, processedCycles, timers, arbLog, clearSeen>>

SpecPrices == InitPrices /\ [][PricesCall]_vars

\* --------------------------------------------------------------- parseTrade
\* Notes are sequences of lexemes: words, numbers-to-be and single blanks.
\* A lexeme made of digits and dots only ([\d.]+); "." is one of them.
DigitDotRuns == {"12.5", "0.23", "."}
\* parseFloat of a run of digits and dots, in 1/10000; nan for NaN
ParseFloat(text) ==
    IF text = "12.5" THEN [ nan |-> FALSE, value |-> 125000 ]
    ELSE IF text = "0.23" THEN [ nan |-> FALSE, value |-> 2300 ]
    ELSE [ nan |-> TRUE, value |-> 0 ]

\* notes.includes(tag)
Includes(notes, tag) == \E i \in DOMAIN notes : notes[i] = tag

RECURSIVE SkipBlanks(_, _)
\* \s* from position i: the first position that holds no blank
SkipBlanks(notes, i) ==
    IF i <= Len(notes) /\ notes[i] = " " THEN SkipBlanks(notes, i + 1) ELSE i

LexemeAt(notes, i) == IF i \in DOMAIN notes THEN notes[i] ELSE "end"

\* /(WATCH|PAPER):\s*(UP|DOWN)\s+([\d.]+)\s+shares\s+@\s+\$([\d.]+)/ tried
\* at position i: << >> for no match, else <<[side, shares, fill_px]>>
RegexAt(notes, i) ==
    LET a == SkipBlanks(notes, i + 1)
        b == SkipBlanks(notes, a + 1)
        c == SkipBlanks(notes, b + 1)
        d == SkipBlanks(notes, c + 1)
        e == SkipBlanks(notes, d + 1)
    IN  IF /\ LexemeAt(notes, i) \in {"WATCH:", "PAPER:"}
           /\ LexemeAt(notes, a) \in {"UP", "DOWN"}
           /\ LexemeAt(notes, a + 1) = " " /\ LexemeAt(notes, b) \in DigitDotRuns
           /\ LexemeAt(notes, b + 1) = " " /\ LexemeAt(notes, c) = "shares"
           /\ LexemeAt(notes, c + 1) = " " /\ LexemeAt(notes, d) = "@"
           /\ LexemeAt(notes, d + 1) = " " /\ LexemeAt(notes, e) = "$"
           /\ LexemeAt(notes, e + 1) \in DigitDotRuns
        THEN << [ side |-> notes[a], shares |-> notes[b], fill_px |-> notes[e + 1] ] >>
        ELSE << >>

RECURSIVE RegexFrom(_, _)
\* notes.match(...): the leftmost match
RegexFrom(notes, i) ==
    IF i > Len(notes) THEN << >>
    ELSE IF RegexAt(notes, i) # << >> THEN RegexAt(notes, i)
    ELSE RegexFrom(notes, i + 1)

\* parseTrade(row, market): << >> for null, else <<trade>>; row[1] is the
\* timestamp column as parseInt read it, the last column the notes.
parseTrade(row, market) ==
    LET notes == row[Len(row)]
        match == RegexFrom(notes, 1)
    IN  IF notes = << >> \/ (~Includes(notes, "WATCH:") /\ ~Includes(notes, "PAPER:"))
        THEN << >>
        ELSE IF match = << >> THEN << >>
        ELSE << [ market |-> market, timestamp |-> row[1], side |-> match[1].side,
                  shares |-> ParseFloat(match[1].shares),
                  fill_px |-> ParseFloat(match[1].fill_px), notes |-> notes ] >>

RECURSIVE ParseRows(_, _, _, _)
\* The row loop of matchPaperToWatch over one file, from row i on:
\* the trades pushed to allWatchTrades (tag "WATCH:") or allPaperTrades ("PAPER:").
ParseRows(rows, market, tag, i) ==
    IF i > Len(rows) THEN << >>
    ELSE LET trade == parseTrade(rows[i], market)
             pushed == IF trade = << >> THEN << >>
                       ELSE IF Includes(trade[1].notes, "WATCH:")
                       THEN (IF tag = "WATCH:" THEN trade ELSE << >>)
                       ELSE IF Includes(trade[1].notes, "PAPER:")
                       THEN (IF tag = "PAPER:" THEN trade ELSE << >>)
                       ELSE << >>
         IN  pushed \o ParseRows(rows, market, tag, i + 1)

\* Parts of a notes cell that differ from "WATCH: UP 12.5 shares @ $0.23"
\* at most.
MaxDeviations == 2
Blanks(n) == [ i \in 1..n |-> " " ]
Part(lexeme) == IF lexeme = "none" THEN << >> ELSE << lexeme >>
\* The notes cell written from its parts: lexemes ("none" = left out) and
\* numbers of blanks between them.
NotesOf(p) ==
    Part(p.prefix) \o Part(p.tag) \o Blanks(p.sp0) \o Part(p.side) \o Blanks(p.sp1)
    \o Part(p.shares) \o Blanks(p.sp2) \o Part(p.word) \o Blanks(p.sp3) \o Part(p.at)
    \o Blanks(p.sp4) \o Part(p.dollar) \o Blanks(p.sp5) \o Part(p.price) \o Part(p.suffix)
WellFormedParts ==
    [ prefix |-> "none", tag |-> "WATCH:", sp0 |-> 1, side |-> "UP", sp1 |-> 1,
      shares |-> "12.5", sp2 |-> 1, word |-> "shares", sp3 |-> 1, at |-> "@", sp4 |-> 1,
      dollar |-> "$", sp5 |-> 0, price |-> "0.23", suffix |-> "none" ]
PartsTried ==
    { p \in [ prefix : {"none", "x"}, tag : {"WATCH:", "PAPER:", "watch:", "OTHER:", "none"},
              sp0 : 0..2, side : {"UP", "DOWN", "up", "SIDE", "none"}, sp1 : 0..2,
              shares : {"12.5", ".", "none"}, sp2 : 0..1, word : {"shares", "none"},
              sp3 : 0..1, at : {"@", "none"}, sp4 : 0..1, dollar : {"$", "none"},
              sp5 : 0..1, price : {"0.23", ".", "none"}, suffix : {"none", "x"} ] :
        Cardinality({ f \in DOMAIN p : p[f] # WellFormedParts[f] }) <= MaxDeviations }

InitParse ==
    /\ Idle
    /\ pc = "call"
    /\ \E p \in PartsTried :
          probe = [ fn |-> "parseTrade", parts |-> p,
                    rows |-> << <<1000, NotesOf(WellFormedParts)>>, <<1500, NotesOf(p)>> >>,
                    trade |-> << >>, stats |-> EmptyMap ]

\* The rows of a BTC_15m file parsed and matched (matchPaperToWatch, lines 119-128)
ParseCall ==
    /\ pc = "call" /\ probe.fn = "parseTrade"
    /\ probe' = [probe EXCEPT
                   !.trade = parseTrade(probe.rows[2], "BTC_15m"),
                   !.stats = matchPaperToWatch(ParseRows(probe.rows, "BTC_15m", "WATCH:", 1),
                                               ParseRows(probe.rows, "BTC_15m", "PAPER:", 1), 2000)]
    /\ pc' = "returned"
    /\ UNCHANGED idleVars

SpecParse == InitParse /\ [][ParseCall]_vars

\* ------------------------------------------------- TradeLogger.logTrade
\* Calls of logTrade that may overlap.
MaxCalls == 3
\* `${traderAddress}:${activity.transactionHash}:${activity.asset}`
TradeKeysTried == { <<"PAPER", "0xa1", "assetUp">>, <<"PAPER", "0xb2", "assetUp">> }

\* The logger with its calls not yet started: the set loggedTrades, the rows
\* of the CSV file (by trade key) and where each call stands.
InitLog ==
    /\ Idle
    /\ pc = "call"
    /\ \E keys \in [1..MaxCalls -> TradeKeysTried] :
          probe = [ fn |-> "logTrade",
                    loggedTrades |-> {},
                    csv |-> << >>,
                    calls |-> [ c \in 1..MaxCalls |-> [ tradeKey |-> keys[c], at |-> "start" ] ] ]

\* logTrade from its start to await this.fetchMarketPrices (lines 621-632)
LogTradeStart(c) ==
    /\ pc = "call" /\ probe.fn = "logTrade"
    /\ probe.calls[c].at = "start"
    /\ probe' = [probe EXCEPT !.calls[c].at =
                    IF probe.calls[c].tradeKey \in probe.loggedTrades
                    THEN "returned" ELSE "fetch"]
    /\ UNCHANGED <<pc, idleVars>>

\* ... and from there to its end (lines 634-698): the row is appended and
\* the key added, or fs.appendFileSync throws and the catch block logs it.
LogTradeWrite(c) ==
    /\ pc = "call" /\ probe.fn = "logTrade"
    /\ probe.calls[c].at = "fetch"
    /\ \E written \in BOOLEAN :
          probe' = IF written
                   THEN [probe EXCEPT !.csv = Append(@, probe.calls[c].tradeKey),
                                      !.loggedTrades = @ \cup {probe.calls[c].tradeKey},
                                      !.calls[c].at = "written"]
                   ELSE [probe EXCEPT !.calls[c].at = "failed"]
    /\ UNCHANGED <<pc, idleVars>>

NextLog == \E c \in 1..MaxCalls : LogTradeStart(c) \/ LogTradeWrite(c)

SpecLog == InitLog /\ [][NextLog]_vars

\* ================================================================ properties
\* Inputs the properties below try a call with.
ClearPairs == { pp \in PricePairs : ClearWinner(pp[1], pp[2]) # "NONE" }
WindowOffsets == { ARB_MIN_TIME_MS, 60, EXPIRATION_WINDOW_MS }
CapitalSamples == { 0, PAPER_MIN_TRADE, PAPER_MAX_TRADE }
PricesOnly(pp) == [ priceUp |-> pp[1], priceDown |-> pp[2] ]

\* Arbitrage purchases logged for one cycle key.
PurchasesOf(log, cycleKey) == { i \in 1..Len(log) : log[i].cycleKey = cycleKey }

\* C1: in every reachable state no market identifier is a key of
\* buildingPositions and of positions at the same time.
C1_OneOwnerPerMarket == DOMAIN buildingPositions \cap DOMAIN positions = {}

\* C1 witness: one market has been finalized into a Position while another
\* market still has its BuildState.
C1_Witness ==
    \E a \in DOMAIN positions, b \in DOMAIN buildingPositions :
        a # b /\ positions[a].hasSplitPosition

\* C2: at most one arbitrage purchase is ever logged for a (market,
\* expiry-minute) cycle key, and once executeArbitrageTrade has tagged a
\* position's cycle key, calling it again for that position with clear-winner
\* prices inside the window, whatever the capital then available, changes
\* neither the capital pool nor the position.
C2_ArbitrageAtMostOnce ==
    /\ \A id \in MarketIds, e \in EndDates :
           Cardinality(PurchasesOf(arbLog, CycleKey(id, e))) <= 1
    /\ \A id \in DOMAIN positions :
           InSeq(processedCycles, CycleKey(id, positions[id].endDate)) =>
               \A pp \in ClearPairs, d \in WindowOffsets,
                  capital \in CapitalSamples \cup {currentCapital} :
                   LET a == executeArbitrageTrade(positions[id], PricesOnly(pp), capital,
                                processedCycles, totalTrades,
                                EndDateMs(positions[id].endDate) - d)
                   IN  a.currentCapital = capital /\ a.position = positions[id]

\* C2 witness: an arbitrage purchase has been made for a position that is
\* still held and unsettled.
C2_Witness ==
    \E id \in DOMAIN positions :
        /\ positions[id].hasArbitragePosition /\ ~positions[id].isSettled
        /\ PurchasesOf(arbLog, CycleKey(id, positions[id].endDate)) # {}

\* C3: once a position is settled, a further settlePosition call on it, with
\* any outcome flags, and a further settlePositions pass over it, at any later
\* time, add nothing to the capital pool, the realized P&L and the cycle
\* counter and leave its settlementPnL as it is.
C3_SettlementIdempotent ==
    \A id \in DOMAIN positions :
        positions[id].isSettled =>
            /\ \A upWon, downWon \in BOOLEAN :
                   LET st == settlePosition(positions[id], upWon, downWon)
                   IN  /\ st.value = 0 /\ st.pnl = 0 /\ st.cycles = 0
                       /\ st.position.settlementPnL = positions[id].settlementPnL
            /\ \A fetched \in FetchResults, dt \in {0} \cup SleepSteps :
                   LET st == settlePositions([x \in {id} |-> positions[id]],
                                             discoveredMarkets, fetched, now + dt)
                   IN  /\ st.value = 0 /\ st.pnl = 0 /\ st.cycles = 0
                       /\ st.positions[id].settlementPnL = positions[id].settlementPnL

\* C3 witness: a position has been settled with a gain or a loss and is still
\* in the map, its purge timer pending.
C3_Witness ==
    \E id \in DOMAIN positions :
        /\ positions[id].isSettled /\ positions[id].settlementPnL # 0
        /\ \E tm \in timers : tm.conditionId = id

\* The main loop calls executeArbitrageTrade for market id in this step.
ArbitrageAttempt(id) ==
    pc = "process" /\ id \in todo /\ id \notin todo' /\ Branch(id) = "arb"

\* The attempt for id is made inside the window on prices showing winner w.
InWindowShowing(id, w) ==
    /\ ~ArbTooEarlyOrLate(positions[id], now)
    /\ ClearWinner(discoveredMarkets[id].priceUp, discoveredMarkets[id].priceDown) = w

\* Arbitrage purchases logged for one market.
PurchasesFor(log, id) == { i \in 1..Len(log) : log[i].conditionId = id }

SettleStep == pc = "process" /\ todo = {} /\ pc' = "sleep"

\* The terminal prices settlePositions reads for a held position (stored
\* prices are never 0 here, so nothing is fetched again).
TerminalPrices(id) == FinalPrices(positions[id], discoveredMarkets, <<0, 0>>)
Resolved(price) == price >= SETTLE_WIN_PRICE
NeitherResolved(id) ==
    ~Resolved(TerminalPrices(id)[1]) /\ ~Resolved(TerminalPrices(id)[2])
ExactlyOneResolved(id) ==
    Resolved(TerminalPrices(id)[1]) # Resolved(TerminalPrices(id)[2])

\* Shares of the resolved side, build phase plus arbitrage phase, at $1 each.
WinningShares(id) ==
    IF Resolved(TerminalPrices(id)[1])
    THEN positions[id].sharesUp + positions[id].arbSharesUp
    ELSE positions[id].sharesDown + positions[id].arbSharesDown

\* No arbitrage purchase for a position whose market never showed a clear
\* winner, and an attempt on it changes nothing.
NoArbitrageWithoutClearWinner ==
    /\ [](\A id \in DOMAIN positions \ clearSeen :
             /\ PurchasesFor(arbLog, id) = {}
             /\ ~positions[id].hasArbitragePosition
             /\ positions[id].arbCostUp = 0 /\ positions[id].arbCostDown = 0
             /\ ~InSeq(processedCycles, CycleKey(id, positions[id].endDate)))
    /\ [][ \A id \in MarketIds :
             (ArbitrageAttempt(id) /\ id \notin clearSeen) =>
                 /\ currentCapital' = currentCapital
                 /\ positions' = positions
                 /\ processedCycles' = processedCycles ]_vars

\* C5 as stated: a position whose market never showed a clear winner from
\* finalization through expiry gets no arbitrage purchase (an attempt leaves
\* capital, position and cycle set unchanged), and its settlement returns
\* exactly its total cost to the capital pool with P&L 0.
C5_AsStated ==
    /\ NoArbitrageWithoutClearWinner
    /\ [][ SettleStep =>
             LET due == DueForSettlement(positions, now)
             IN  /\ \A id \in due \ clearSeen :
                        /\ positions'[id].isSettled
                        /\ positions'[id].settlementPnL = 0
                 /\ (due # {} /\ due \cap clearSeen = {}) =>
                        /\ currentCapital' = currentCapital
                              + SumOver([id \in due |-> TotalCost(positions[id])], due)
                        /\ totalPnL' = totalPnL ]_vars

\* C5 amended: as stated for the arbitrage attempts; the settlement returns
\* exactly the total cost with P&L 0 when in addition neither side's terminal
\* price is >= 0.95 (a side at >= 0.95 whose other side is above the low band
\* is no clear winner for arbitrage but is the winner at settlement).
C5_CostBackWhenNeitherResolved ==
    /\ NoArbitrageWithoutClearWinner
    /\ [][ SettleStep =>
             LET due == DueForSettlement(positions, now)
                 unclear == { id \in due \ clearSeen : NeitherResolved(id) }
             IN  /\ \A id \in unclear :
                        /\ positions'[id].isSettled
                        /\ positions'[id].settlementPnL = 0
                 /\ (due # {} /\ due = unclear) =>
                        /\ currentCapital' = currentCapital
                              + SumOver([id \in due |-> TotalCost(positions[id])], due)
                        /\ totalPnL' = totalPnL ]_vars

\* C5 witness: a position whose market never showed a clear winner has been
\* settled at prices below 0.95 on both sides, unarbitraged, with P&L 0.
C5_Witness ==
    \E id \in DOMAIN positions \ clearSeen :
        /\ positions[id].isSettled /\ ~positions[id].hasArbitragePosition
        /\ positions[id].settlementPnL = 0
        /\ ~Resolved(positions[id].currentPriceUp)
        /\ ~Resolved(positions[id].currentPriceDown)
        /\ currentCapital >= TotalCost(positions[id])

\* C6: settlePositions settling positions with exactly one side resolved
\* (terminal price >= 0.95) marks each settled with settlementPnL = value -
\* (costUp + costDown + arbCostUp + arbCostDown), value being the build-phase
\* plus arbitrage-phase shares of the winning side; the capital pool grows by
\* exactly the values and the realized P&L by exactly those P&Ls.
C6_WinnerTakesShareValue ==
    [][ SettleStep =>
          LET due == DueForSettlement(positions, now)
              won == { id \in due : ExactlyOneResolved(id) }
              pnl == [ id \in won |-> WinningShares(id)
                          - (positions[id].costUp + positions[id].costDown
                             + positions[id].arbCostUp + positions[id].arbCostDown) ]
          IN  /\ \A id \in won :
                     /\ positions'[id].isSettled
                     /\ positions'[id].settlementPnL = pnl[id]
              /\ (due # {} /\ due = won) =>
                     /\ currentCapital' = currentCapital
                           + SumOver([id \in won |-> WinningShares(id)], won)
                     /\ totalPnL' = totalPnL + SumOver(pnl, won) ]_vars

\* C6 witness: a position that bought DOWN in its arbitrage phase has been
\* settled with DOWN as the only resolved side, its P&L counting the
\* arbitrage shares.
C6_Witness ==
    \E id \in DOMAIN positions :
        /\ positions[id].isSettled
        /\ positions[id].arbSharesDown > 0
        /\ Resolved(positions[id].currentPriceDown)
        /\ ~Resolved(positions[id].currentPriceUp)
        /\ positions[id].settlementPnL =
              positions[id].sharesDown + positions[id].arbSharesDown
              - TotalCost(positions[id])

\* q is invested / avgPrice in 1/100 share, rounded down.
IsQuotient(q, invested, avgPrice) ==
    q * avgPrice <= invested * PriceScale /\ invested * PriceScale < (q + 1) * avgPrice

\* C7: finalizePosition creates a Position with costUp = investedUp, costDown =
\* investedDown, sharesUp = investedUp / avgPriceUp and sharesDown =
\* investedDown / avgPriceDown (0 shares for an average price of 0), no
\* arbitrage shares or cost, the split flag set, the arbitraged and settled
\* flags clear, and removes the BuildState; $600 at 0.5 and $400 at 0.4 give
\* 1200 and 1000 shares.
C7_FinalizeCarriesBuildState ==
    (probe.fn = "finalizePosition" /\ pc = "returned") =>
        LET id == probe.conditionId
            bs == probe.buildState
        IN  /\ id \in DOMAIN positions /\ id \notin DOMAIN buildingPositions
            /\ positions[id].costUp = bs.investedUp
            /\ positions[id].costDown = bs.investedDown
            /\ IF bs.avgPriceUp = 0 THEN positions[id].sharesUp = 0
               ELSE IsQuotient(positions[id].sharesUp, bs.investedUp, bs.avgPriceUp)
            /\ IF bs.avgPriceDown = 0 THEN positions[id].sharesDown = 0
               ELSE IsQuotient(positions[id].sharesDown, bs.investedDown, bs.avgPriceDown)
            /\ positions[id].arbSharesUp = 0 /\ positions[id].arbSharesDown = 0
            /\ positions[id].arbCostUp = 0 /\ positions[id].arbCostDown = 0
            /\ positions[id].hasSplitPosition
            /\ ~positions[id].hasArbitragePosition /\ ~positions[id].isSettled
            /\ (bs.investedUp = 600 * MoneyScale /\ bs.avgPriceUp = PriceScale \div 2
                /\ bs.investedDown = 400 * MoneyScale /\ bs.avgPriceDown = (PriceScale * 4) \div 10)
               => /\ positions[id].sharesUp = 1200 * ShareScale
                  /\ positions[id].sharesDown = 1000 * ShareScale

\* C7 witness: the BuildState with $600 at 0.5 and $400 at 0.4 has been
\* finalized into a Position of 1200 and 1000 shares.
C7_Witness ==
    /\ probe.fn = "finalizePosition" /\ pc = "returned"
    /\ probe.buildState.investedUp = 600 * MoneyScale
    /\ probe.buildState.avgPriceUp = PriceScale \div 2
    /\ probe.buildState.investedDown = 400 * MoneyScale
    /\ probe.buildState.avgPriceDown = (PriceScale * 4) \div 10
    /\ positions[probe.conditionId].sharesUp = 1200 * ShareScale
    /\ positions[probe.conditionId].sharesDown = 1000 * ShareScale
    /\ buildingPositions = EmptyMap

\* The windows of the delta features, in seconds.
DeltaWindows == {1, 5, 30}

\* C8: after computeFeatures, for each window w of 1 s, 5 s and 30 s the three
\* delta fields of w are set iff the history holds a sample whose timestamp is
\* less than 2w away from now - w; otherwise (an empty history included) the
\* fields are not set at all, rather than set to 0; distance_from_50 is
\* always set.
C8_DeltaPresentIffSampleNear ==
    (probe.fn = "computeFeatures" /\ pc = "returned") =>
        /\ "distance_from_50" \in DOMAIN probe.features
        /\ \A w \in DeltaWindows :
               LET near == \E i \in 1..Len(probe.history) :
                               Abs(probe.history[i].timestamp - (probe.state.timestamp - w))
                                   < 2 * w
               IN  \A which \in {"up", "down", "side"} :
                       DeltaField(w, which) \in DOMAIN probe.features <=> near

\* C8 witness: one call on a history with a sample exactly 2w away from the 5 s
\* target and one just inside the 30 s limit: the 30 s deltas are set, the 1 s
\* and 5 s deltas are not.
C8_Witness ==
    /\ probe.fn = "computeFeatures" /\ pc = "returned"
    /\ Len(probe.history) = 2
    /\ probe.history[1].timestamp = probe.state.timestamp - 15
    /\ probe.history[2].timestamp = probe.state.timestamp - 89
    /\ "delta_30s_up_px" \in DOMAIN probe.features
    /\ "delta_5s_up_px" \notin DOMAIN probe.features
    /\ "delta_1s_up_px" \notin DOMAIN probe.features

\* The price sizeForTrade looked up in the call under study.
LookedUpPrice == IF probe.side = "UP" THEN probe.state.up_px ELSE probe.state.down_px

\* What a lookup that resolves to bucket `bin` returns: the entry under the
\* bucket's key, or the upper median of all entries when there is none.
SizeOfBin(sizeParams, bin) ==
    LET key == BucketKey(sizeParams.bin_edges, bin)
        sorted == SortedValues(sizeParams.size_table, DOMAIN sizeParams.size_table)
    IN  IF key \in DOMAIN sizeParams.size_table
        THEN ToFixed4(sizeParams.size_table[key])
        ELSE ToFixed4(sorted[Len(sorted) \div 2 + 1])

\* C9 as stated: a price equal to the lower edge of a bin (edge i, counted
\* here from 1, of a bin i that exists) makes sizeForTrade return the table
\* entry of bin i.
C9_AsStated ==
    (probe.fn = "sizeForTrade" /\ pc = "returned" /\ probe.sizeParams.defined) =>
        LET edges == probe.sizeParams.bin_edges
            table == probe.sizeParams.size_table
        IN  \A i \in 1..(Len(edges) - 1) :
                (LookedUpPrice = edges[i] /\ BucketKey(edges, i) \in DOMAIN table) =>
                    probe.size = ToFixed4(table[BucketKey(edges, i)])

\* C9 amended: with strictly ascending edges and a table that is not empty, a
\* price equal to edge i resolves to the bin below the edge (bin i - 1, the
\* first match of the scan that includes both ends), and to the first bin
\* for the first edge; the size returned is that bin's entry when the table
\* has one under the key as JavaScript prints the edges, else the upper
\* median of the table, rounded to 4 decimals.
C9_EdgeResolvesToBinBelow ==
    (probe.fn = "sizeForTrade" /\ pc = "returned" /\ probe.sizeParams.defined
        /\ DOMAIN probe.sizeParams.size_table # {}) =>
        LET edges == probe.sizeParams.bin_edges
        IN  \A i \in 1..Len(edges) :
                LookedUpPrice = edges[i] =>
                    probe.size = SizeOfBin(probe.sizeParams, IF i = 1 THEN 1 ELSE i - 1)

\* C9 witness: a price on the second edge was looked up in a table holding
\* different entries for the bins below and above that edge, and the entry of
\* the bin below was returned.
C9_Witness ==
    /\ probe.fn = "sizeForTrade" /\ pc = "returned" /\ probe.sizeParams.defined
    /\ Len(probe.sizeParams.bin_edges) >= 3
    /\ LookedUpPrice = probe.sizeParams.bin_edges[2]
    /\ LET edges == probe.sizeParams.bin_edges
           table == probe.sizeParams.size_table
       IN  /\ BucketKey(edges, 1) \in DOMAIN table
           /\ BucketKey(edges, 2) \in DOMAIN table
           /\ table[BucketKey(edges, 1)] # table[BucketKey(edges, 2)]
           /\ probe.size = ToFixed4(table[BucketKey(edges, 1)])

\* Sizes of the trade that follows the inventory check: the default size 1.0
\* of sizeForTrade and a quarter share.
TradeSizes == { InvScale, InvScale \div 4 }

RecentCount(width) ==
    Cardinality({ i \in DOMAIN probe.recentTradeTimes :
                    /\ probe.recentTradeTimes[i] >= probe.currentTs - width
                    /\ probe.recentTradeTimes[i] <= probe.currentTs })

\* C11: with a configuration, cadenceOk allows the trade exactly when there is
\* no last trade or it lies at least min_inter_trade_ms back, fewer than
\* max_trades_per_sec recent trades lie in [now - 1000, now] and fewer than
\* max_trades_per_min lie in [now - 60000, now]; a count equal to a cap rejects.
C11_CadenceAllowsIffUnderCaps ==
    (pc = "returned" /\ probe.fn = "cadenceOk" /\ probe.cadenceParams.defined) =>
        (probe.ok <=>
            /\ \/ probe.lastTradeTs.isNull
               \/ probe.currentTs - probe.lastTradeTs.ts
                      >= probe.cadenceParams.min_inter_trade_ms
            /\ RecentCount(1000) < probe.cadenceParams.max_trades_per_sec
            /\ RecentCount(60000) < probe.cadenceParams.max_trades_per_min)

\* C11 witness: a call that is rejected only because the count of the last
\* minute equals max_trades_per_min, one of the counted trades lying exactly
\* 60000 ms back.
C11_Witness ==
    /\ pc = "returned" /\ probe.fn = "cadenceOk" /\ probe.cadenceParams.defined
    /\ probe.lastTradeTs.isNull
    /\ RecentCount(1000) < probe.cadenceParams.max_trades_per_sec
    /\ RecentCount(60000) = probe.cadenceParams.max_trades_per_min
    /\ \E i \in DOMAIN probe.recentTradeTimes :
          probe.recentTradeTimes[i] = probe.currentTs - 60000
    /\ ~probe.ok

\* The reference and the replica trades of one market, in file order.
WatchOf(market) == TradesOfMarket(probe.allWatchTrades, market)
PaperOf(market) == TradesOfMarket(probe.allPaperTrades, market)
TimeDifference(watchTrade, paperTrade) == Abs(paperTrade.timestamp - watchTrade.timestamp)
\* Positions of the replica trades inside the window of watchTrade that no
\* replica beats: none is closer and none as close comes earlier.
NearestInWindow(watchTrade, paperTrades) ==
    { j \in DOMAIN paperTrades :
        /\ TimeDifference(watchTrade, paperTrades[j]) <= probe.windowMs
        /\ \A j2 \in DOMAIN paperTrades :
              TimeDifference(watchTrade, paperTrades[j2]) <= probe.windowMs
              => \/ TimeDifference(watchTrade, paperTrades[j])
                       < TimeDifference(watchTrade, paperTrades[j2])
                 \/ /\ TimeDifference(watchTrade, paperTrades[j])
                          = TimeDifference(watchTrade, paperTrades[j2])
                    /\ j <= j2 }
\* Positions of the reference trades of a market that have a replica in the window.
MatchableWatch(market) ==
    SelectSeq([ k \in DOMAIN WatchOf(market) |-> k ],
              LAMBDA k : NearestInWindow(WatchOf(market)[k], PaperOf(market)) # {})

\* C12: within one market every reference trade that has a replica at most
\* windowMs away is matched, in order, to the replica of smallest time
\* difference, the earliest in the list on equal difference; a reference trade
\* with no replica in the window yields no match, so matched_count is
\* watch_total less the missed ones and never exceeds watch_total.
C12_NearestReplicaInWindow ==
    (pc = "returned" /\ probe.fn = "matchPaperToWatch") =>
        \A market \in DOMAIN probe.stats :
            LET st == probe.stats[market]
                watch == WatchOf(market)
                paper == PaperOf(market)
                matchable == MatchableWatch(market)
            IN  /\ Len(st.matches) = Len(matchable)
                /\ \A n \in DOMAIN st.matches :
                      LET w == watch[matchable[n]]
                          r == paper[CHOOSE j \in NearestInWindow(w, paper) : TRUE]
                      IN  /\ st.matches[n].watch_timestamp = w.timestamp
                          /\ st.matches[n].watch_side = w.side
                          /\ st.matches[n].paper_timestamp = r.timestamp
                          /\ st.matches[n].paper_side = r.side
                          /\ st.matches[n].dt_ms = TimeDifference(w, r)
                          /\ st.matches[n].dt_ms <= probe.windowMs
                /\ st.matched_count = Len(st.matches)
                /\ st.watch_total = Len(watch)
                /\ st.matched_count <= st.watch_total
                /\ st.watch_total - st.matched_count
                      = Cardinality({ k \in DOMAIN watch :
                                        NearestInWindow(watch[k], paper) = {} })

\* C12 witness: the documented example (reference at 1000, replicas at 1500
\* and 4000, window 2000) matched to the replica at 1500, next to a reference
\* trade of the same market that is missed.
C12_Witness ==
    /\ pc = "returned" /\ probe.fn = "matchPaperToWatch" /\ probe.windowMs = 2000
    /\ "BTC_15m" \in DOMAIN probe.stats
    /\ { PaperOf("BTC_15m")[j].timestamp : j \in DOMAIN PaperOf("BTC_15m") } = {1500, 4000}
    /\ Len(WatchOf("BTC_15m")) = 1 /\ WatchOf("BTC_15m")[1].timestamp = 1000
    /\ probe.stats["BTC_15m"].matched_count = 1
    /\ probe.stats["BTC_15m"].matches[1].paper_timestamp = 1500
    /\ "ETH_15m" \in DOMAIN probe.stats
    /\ probe.stats["ETH_15m"].watch_total = 1
    /\ probe.stats["ETH_15m"].matched_count = 0

\* The entrySignal call under study has returned, on a configuration.
EntryReturned == pc = "returned" /\ probe.fn = "entrySignal" /\ probe.entryParams.defined
\* The 5 s deltas the two sides are judged on: the side delta for UP (0 when
\* it is absent), the DOWN delta for DOWN, the side delta standing in when the
\* DOWN delta is absent.
UpDelta == IF "delta_5s_side_px" \in DOMAIN probe.features
           THEN probe.features["delta_5s_side_px"] ELSE 0
DownDelta == IF "delta_5s_down_px" \in DOMAIN probe.features
             THEN probe.features["delta_5s_down_px"] ELSE UpDelta
\* The mode condition as documented.
ModeHolds(delta) ==
    /\ probe.entryParams.mode = "momentum" => delta >= probe.entryParams.momentum_threshold
    /\ probe.entryParams.mode = "reversion" => delta <= -probe.entryParams.momentum_threshold
UpQualifies ==
    /\ ~probe.entryParams.up_price_min.isNull /\ ~probe.entryParams.up_price_max.isNull
    /\ probe.entryParams.up_price_min.value <= probe.state.up_px
    /\ probe.state.up_px <= probe.entryParams.up_price_max.value
    /\ ModeHolds(UpDelta)
DownQualifies ==
    /\ ~probe.entryParams.down_price_min.isNull /\ ~probe.entryParams.down_price_max.isNull
    /\ probe.entryParams.down_price_min.value <= probe.state.down_px
    /\ probe.state.down_px <= probe.entryParams.down_price_max.value
    /\ ModeHolds(DownDelta)

\* C13: entrySignal checks UP before DOWN: when both sides satisfy their band
\* and mode condition the result is a trade on UP, and DOWN is returned only
\* when UP is out of band or fails its mode condition.
C13_UpBeforeDown ==
    EntryReturned =>
        /\ (UpQualifies /\ DownQualifies) =>
               (probe.signal.should_trade /\ probe.signal.side = "UP")
        /\ probe.signal.side = "DOWN" => ~UpQualifies

\* C13 witness: in momentum mode both sides are in band with their deltas at
\* the threshold, and the signal is UP.
C13_Witness ==
    /\ EntryReturned /\ probe.entryParams.mode = "momentum"
    /\ UpQualifies /\ DownQualifies
    /\ "delta_5s_down_px" \in DOMAIN probe.features
    /\ probe.signal.should_trade /\ probe.signal.side = "UP"
    /\ probe.signal.reason = "momentum_met"

C15_MissingConfigurationDefaults ==
    pc = "returned" =>
        /\ (probe.fn = "entrySignal" /\ ~probe.entryParams.defined) =>
               probe.signal = [ should_trade |-> FALSE, side |-> "null",
                                reason |-> "no_entry_params" ]
        /\ (probe.fn = "sizeForTrade"
               /\ (~probe.sizeParams.defined \/ DOMAIN probe.sizeParams.size_table = {})) =>
               probe.size = SizeScale
        /\ (probe.fn = "inventoryOkAndRebalance" /\ ~probe.inventoryParams.defined) =>
               probe.side = probe.proposedSide
        /\ (probe.fn = "cadenceOk" /\ ~probe.cadenceParams.defined) => probe.ok

\* C15 witness: entrySignal has returned no-trade for a missing configuration
\* on a tick whose features carry a 5 s delta.
C15_Witness ==
    /\ pc = "returned" /\ probe.fn = "entrySignal" /\ ~probe.entryParams.defined
    /\ "delta_5s_side_px" \in DOMAIN probe.features
    /\ ~probe.signal.should_trade /\ probe.signal.reason = "no_entry_params"

\* The main loop visits market id in this step.
ProcessingTick(id) == pc = "process" /\ id \in todo /\ id \notin todo'
\* Market id has not expired and expires in less than EXPIRATION_WINDOW_MS.
InsideWindow(id) ==
    /\ discoveredMarkets[id].endDate > 0
    /\ EndDateMs(discoveredMarkets[id].endDate) - now > 0
    /\ EndDateMs(discoveredMarkets[id].endDate) - now < EXPIRATION_WINDOW_MS

\* C16 as stated: on every processing tick of a market that has a BuildState
\* and less than the pre-expiry window left, a Position is created from the
\* BuildState and the BuildState is discarded, and no build trade is executed.
C16_AsStated ==
    [][ \A id \in MarketIds :
          (ProcessingTick(id) /\ Has(buildingPositions, id) /\ InsideWindow(id)) =>
              /\ Has(positions', id)
              /\ ~Has(buildingPositions', id)
              /\ totalTrades' = totalTrades ]_vars

\* C16: the tick that shows the divergence: a BuildState invested on one side
\* only, with valid prices, is left in place by a processing tick inside the
\* window and no Position is created.
C16_OneSidedSurvives ==
    \E id \in DOMAIN buildingPositions :
        /\ Has(discoveredMarkets, id) /\ InsideWindow(id)
        /\ discoveredMarkets[id].priceUp > 0 /\ discoveredMarkets[id].priceDown > 0
        /\ pc = "process" /\ id \notin todo
        /\ ~Has(positions, id)
        /\ (buildingPositions[id].investedUp > 0) # (buildingPositions[id].investedDown > 0)

\* Market id is discovered, not expired, has neither a Position nor a
\* BuildState, and both its side assets and both prices (> 0) are known.
ReadyToBuild(id) ==
    /\ Has(discoveredMarkets, id)
    /\ ~Has(positions, id) /\ ~Has(buildingPositions, id)
    /\ discoveredMarkets[id].assetUp /\ discoveredMarkets[id].assetDown
    /\ discoveredMarkets[id].priceUp > 0 /\ discoveredMarkets[id].priceDown > 0
    /\ ~(discoveredMarkets[id].endDate > 0 /\ discoveredMarkets[id].endDate <= loopNow)
\* The expiry of market id is unknown or at least EXPIRATION_WINDOW_MS away.
OutsideWindow(id) ==
    \/ discoveredMarkets[id].endDate = 0
    \/ EndDateMs(discoveredMarkets[id].endDate) - now >= EXPIRATION_WINDOW_MS
\* 70% of the capital pool reaches the minimum position of $10 (the
\* per-market caps lie far above it).
PoolCoversMinimum == currentCapital * 70 >= MIN_POSITION_SIZE * 100

\* C17 as stated: a discovered market without a Position gets a BuildState on
\* the first processing tick on which both side assets are known and both
\* prices are > 0.
C17_AsStated ==
    [][ \A id \in MarketIds :
          (ProcessingTick(id) /\ ReadyToBuild(id)) => Has(buildingPositions', id) ]_vars

\* C17: a processing tick of such a market creates the BuildState exactly
\* when, in addition, the expiry is unknown or at least 120 s away and 70% of
\* the capital pool is at least $10.
C17_BuildStartsWhenFundedOutsideWindow ==
    [][ \A id \in MarketIds :
          (ProcessingTick(id) /\ ReadyToBuild(id)) =>
              (Has(buildingPositions', id) <=> (OutsideWindow(id) /\ PoolCoversMinimum)) ]_vars

\* C17 witness: on one iteration a market got its BuildState and made its
\* first trade, and another market, ready as well, was visited and got none
\* because the pool no longer covers the minimum position.
C17_Witness ==
    /\ pc = "process" /\ todo = {}
    /\ \E id \in DOMAIN buildingPositions :
          /\ buildingPositions[id].lastRebalanceTime = now
          /\ buildingPositions[id].tradeCount = 1
    /\ \E id \in MarketIds :
          ReadyToBuild(id) /\ OutsideWindow(id) /\ ~PoolCoversMinimum

\* The executeArbitrageTrade call under study made a purchase: a trade was
\* logged, capital was spent or the position's arbitrage fields changed.
ArbitragePurchased ==
    \/ arbLog # << >>
    \/ currentCapital # probe.currentCapital
    \/ totalTrades # 2
    \/ positions[probe.conditionId] # probe.position

\* C18: executeArbitrageTrade makes a purchase only for a position that is
\* unsettled and not yet arbitraged, and only while the time left to expiry
\* lies between 10 s and the pre-expiry window of 120 s: none earlier than the
\* window, none in the last 10 s, none after expiry.
C18_ArbitrageOnlyInsideWindow ==
    (pc = "returned" /\ probe.fn = "executeArbitrageTrade" /\ ArbitragePurchased) =>
        /\ ~probe.position.isSettled
        /\ ~probe.position.hasArbitragePosition
        /\ probe.timeToExpiration >= ARB_MIN_TIME_MS
        /\ probe.timeToExpiration <= EXPIRATION_WINDOW_MS
        /\ probe.timeToExpiration > 0

\* C18 witness: a purchase made with exactly 10 s left.
C18_Witness ==
    /\ pc = "returned" /\ probe.fn = "executeArbitrageTrade"
    /\ probe.timeToExpiration = ARB_MIN_TIME_MS
    /\ Len(arbLog) = 1
    /\ positions[probe.conditionId].hasArbitragePosition
    /\ currentCapital < probe.currentCapital

\* The loop iteration that starts in this step runs the cleanup sweep.
CleanupSweep ==
    pc = "top" /\ pc' = "proactive" /\ now - lastCleanupTime >= CLEANUP_INTERVAL_MS

\* The market of id is no longer in the discovered set.
MarketGone(id) == id \notin DOMAIN discoveredMarkets
\* The expiry is known and passed more than the grace period ago.
PastGrace(endDate) == endDate > 0 /\ now - endDate > EXPIRED_THRESHOLD_MS

\* The entries a sweep has to remove: every BuildState and every unsettled
\* Position whose market is gone or whose expiry is past the grace period.
StaleBuilds ==
    { id \in DOMAIN buildingPositions :
        MarketGone(id) \/ PastGrace(discoveredMarkets[id].endDate) }
StalePositions ==
    { id \in DOMAIN positions :
        ~positions[id].isSettled /\ (MarketGone(id) \/ PastGrace(positions[id].endDate)) }

\* The capital reserved for the stale entries: what was deducted from the
\* pool for them, the arbitrage purchase of a Position included.
StaleReserved ==
    SumOver([id \in StaleBuilds |->
                buildingPositions[id].investedUp + buildingPositions[id].investedDown],
            StaleBuilds)
    + SumOver([id \in StalePositions |-> TotalCost(positions[id])], StalePositions)
\* The same without the arbitrage purchases.
StaleBuildCost ==
    SumOver([id \in StaleBuilds |->
                buildingPositions[id].investedUp + buildingPositions[id].investedDown],
            StaleBuilds)
    + SumOver([id \in StalePositions |-> positions[id].costUp + positions[id].costDown],
              StalePositions)

\* The sweep removes exactly the stale entries and leaves the others as they
\* are.
SweepRemovesStale ==
    /\ buildingPositions' = [id \in DOMAIN buildingPositions \ StaleBuilds |->
                                buildingPositions[id]]
    /\ positions' = [id \in DOMAIN positions \ StalePositions |-> positions[id]]

\* C19 as stated: the cleanup sweep removes every BuildState and every
\* unsettled Position whose market is no longer discovered or whose expiry
\* passed more than 60 s ago, returns the capital reserved for each of them to
\* the pool, and leaves every other entry unchanged.
C19_AsStated ==
    [][ CleanupSweep =>
          (SweepRemovesStale /\ currentCapital' = currentCapital + StaleReserved) ]_vars

\* What the sweep does instead: the same removals, but the pool only gets
\* back the build cost; the cost of an arbitrage purchase is not returned.
C19_SweepReturnsBuildCostOnly ==
    [][ CleanupSweep =>
          (SweepRemovesStale /\ currentCapital' = currentCapital + StaleBuildCost) ]_vars

\* C19 witness: nothing is held, nothing was ever settled, and the pool is short of
\* the starting capital: a sweep removed an arbitraged position and kept the
\* cost of its arbitrage purchase.
C19_ArbitrageCostLost ==
    /\ positions = EmptyMap /\ buildingPositions = EmptyMap
    /\ totalPnL = 0 /\ totalCycles = 0 /\ timers = {}
    /\ currentCapital < PAPER_STARTING_CAPITAL
    /\ Len(arbLog) > 0

\* The settled positions of the active set.
Settled == { id \in DOMAIN positions : positions[id].isSettled }

\* The purge of id is due: its timer was set PURGE_DELAY_MS after the
\* settlement and the clock has reached it.
PurgeDue(id) == \E tm \in timers : tm.conditionId = id /\ tm.due <= now

\* A settled position stays as it is, settled, until its purge is due, and
\* the step that settles it sets the purge PURGE_DELAY_MS ahead.
SettledStaysUntilPurge ==
    \A id \in MarketIds :
       /\ (id \in Settled /\ ~PurgeDue(id)) =>
              (Has(positions', id) /\ positions'[id].isSettled)
       /\ (id \in Settled /\ ~Has(positions', id)) =>
              (PurgeDue(id) /\ \A tm \in timers' : tm.conditionId # id)
       /\ (Has(positions, id) /\ ~positions[id].isSettled
           /\ Has(positions', id) /\ positions'[id].isSettled) =>
              [conditionId |-> id, due |-> now + PURGE_DELAY_MS] \in timers'

\* C20: after settlement a position stays in the active set with its settled
\* flag true until the delay of 5 s has elapsed and is removed by the timer
\* set at its settlement; every settled position is eventually removed.
C20_SettledPurgedAfterDelay ==
    /\ [][SettledStaysUntilPurge]_vars
    /\ \A id \in MarketIds : (id \in Settled) ~> ~Has(positions, id)

\* C20 witness: a position was settled, the loop has slept past the delay,
\* the purge is due and the position is still in the active set, settled.
C20_Witness ==
    \E id \in Settled :
       /\ PurgeDue(id)
       /\ pc = "top"
       /\ positions[id].settlementPnL # 0

\* The order of the phases of one iteration: cleanup and proactive discovery,
\* watcher discovery, price refresh, the evaluation of the markets one after
\* the other, settlement (with the display that follows it), the delay; the
\* loop is left at the top or from the delay.
PhaseEdges ==
    { <<"top", "proactive">>, <<"proactive", "watchers">>, <<"watchers", "prices">>,
      <<"prices", "process">>, <<"process", "sleep">>, <<"sleep", "top">>,
      <<"top", "stopped">>, <<"sleep", "stopped">> }

\* A step of the for-loop over discoveredMarkets: the loop stays in the
\* evaluation phase and the step is not a purge timer's callback.
EvaluationStep == pc = "process" /\ pc' = "process" /\ timers' = timers

\* The step left the entries of every market but id as they were.
OnlyMarketTouched(id) ==
    /\ \A x \in (DOMAIN positions \cup DOMAIN positions') \ {id} :
          Has(positions, x) /\ Has(positions', x) /\ positions'[x] = positions[x]
    /\ \A x \in (DOMAIN buildingPositions \cup DOMAIN buildingPositions') \ {id} :
          /\ Has(buildingPositions, x) /\ Has(buildingPositions', x)
          /\ buildingPositions'[x] = buildingPositions[x]

\* The step did both a build step (a BuildState created, traded or
\* finalized) and an arbitrage attempt (a cycle key tagged, a purchase).
BuiltAndArbitraged ==
    /\ buildingPositions' # buildingPositions
    /\ processedCycles' # processedCycles \/ arbLog' # arbLog

\* C21: the phases of an iteration follow each other in the fixed order
\* discovery, price refresh, per-market evaluation, settlement and display;
\* the evaluation phase starts with every discovered market to be evaluated,
\* each of its steps evaluates one market not yet evaluated in this iteration,
\* touches that market's entries only and is a build step or an arbitrage
\* attempt, never both; settlement starts when no market is left.
C21_PhasesInOrderOneVisitPerMarket ==
    [][ /\ pc' # pc => <<pc, pc'>> \in PhaseEdges
        /\ (pc = "prices" /\ pc' = "process") => todo' = DOMAIN discoveredMarkets'
        /\ EvaluationStep =>
              /\ \E id \in todo : todo' = todo \ {id} /\ OnlyMarketTouched(id)
              /\ ~BuiltAndArbitraged
              /\ discoveredMarkets' = discoveredMarkets
        /\ (pc = "process" /\ pc' = "sleep") => todo = {}
        /\ pc # "process" => todo' = todo \/ pc' = "process" ]_vars

\* C21 witness: two markets are discovered, both have been evaluated in this
\* iteration, one of them with a build trade, and settlement comes next.
C21_Witness ==
    /\ pc = "process" /\ todo = {}
    /\ Cardinality(DOMAIN discoveredMarkets) >= 2
    /\ \E id \in DOMAIN buildingPositions :
          /\ Has(discoveredMarkets, id)
          /\ buildingPositions[id].lastTradeTime = now
          /\ buildingPositions[id].tradeCount >= 2

\* A stop has been requested.
StopRequested == ~isRunning

\* The steps an iteration in progress makes to its end, and the exit.
FinishingEdges ==
    { <<"proactive", "watchers">>, <<"watchers", "prices">>, <<"prices", "process">>,
      <<"process", "sleep">>, <<"top", "stopped">>, <<"sleep", "stopped">> }

\* C22: once stopPaperTradeMonitor has cleared the running flag, the flag
\* stays cleared, the loop starts no iteration and does not go round again:
\* it only finishes the iteration in progress and exits; the stopped state is
\* final, and every stop request eventually leads to it.
C22_StopEndsTheLoop ==
    /\ [][ /\ StopRequested =>
                /\ StopRequested'
                /\ pc' # pc => <<pc, pc'>> \in FinishingEdges
           /\ pc = "stopped" => pc' = "stopped"
           /\ pc' = "stopped" => StopRequested ]_vars
    /\ StopRequested ~> (pc = "stopped")

\* C22 witness: the stop came in the middle of an iteration, the iteration
\* went on to evaluate a market with a build trade and to settle, and the
\* loop has exited.
C22_Witness ==
    /\ pc = "stopped"
    /\ loopNow = now
    /\ \E id \in DOMAIN buildingPositions : buildingPositions[id].lastTradeTime = now

\* An error was thrown in this step and caught.
ErrorCaught == pc # "caught" /\ pc' = "caught"

\* C23: an error thrown in any phase of an iteration is caught: the step
\* changes no capital, market, BuildState or Position, and does not clear the
\* running flag; from the catch block the loop does nothing of the abandoned
\* iteration, it only waits at least 2 s and goes back to the loop head; the
\* loop reaches the stopped state only after a stop request.
C23_ErrorCaughtLoopGoesOn ==
    [][ /\ ErrorCaught =>
              /\ isRunning' = isRunning
              /\ UNCHANGED <<moneyVars, marketVars, posVars>>
        /\ (pc = "caught" /\ pc' # "caught") =>
              /\ pc' = "top"
              /\ now' >= now + CATCH_DELAY_MS
              /\ UNCHANGED <<isRunning, moneyVars, marketVars, positions, buildingPositions,
                             processedCycles, arbLog>>
        /\ (pc = "caught" /\ pc' = "caught") =>
              UNCHANGED <<moneyVars, marketVars, buildingPositions, processedCycles, arbLog>>
        /\ (pc # "stopped" /\ pc' = "stopped") => ~isRunning ]_vars

\* C23 witness: the loop head is reached, still running, with a position
\* that expired before the previous iteration and is not settled: that
\* iteration was abandoned on an error before its settlement phase.
C23_Witness ==
    /\ pc = "top" /\ isRunning
    /\ \E id \in DOMAIN positions :
          /\ ~positions[id].isSettled
          /\ positions[id].endDate > 0
          /\ positions[id].endDate < loopNow

\* The trade keys (trader address, transaction hash) the activities of the
\* latest poll carry.
PolledKeys(p) == { TradeKey(p.address, p.activities[i]) : i \in 1..Len(p.activities) }

\* C24: no (trader address, transaction hash) is handed to market discovery
\* twice, whatever the polls return, and a poll that brings only keys seen
\* before hands nothing over and changes no state of the discovery.
C24_TradeHandedOncePerKey ==
    /\ [](\A i, j \in 1..Len(probe.handed) : probe.handed[i] = probe.handed[j] => i = j)
    /\ [][ PolledKeys(probe') \subseteq probe.processedTrades =>
              /\ probe'.handed = probe.handed
              /\ probe'.processedTrades = probe.processedTrades ]_vars

\* C24 witness: a trade was handed over in an earlier poll, and the latest
\* poll observed it again, twice, and left everything as it was.
C24_Witness ==
    /\ probe.polls = 2
    /\ Len(probe.handed) = 1
    /\ Len(probe.activities) = 2
    /\ \A i \in 1..2 :
          /\ probe.activities[i].inWindow /\ probe.activities[i].ownWallet
          /\ TradeKey(probe.address, probe.activities[i]) = probe.handed[1]

\* The settlePositions call under study has returned, and both terminal
\* prices were at or above 0.95.
DoubleWinnerSettled ==
    /\ pc = "returned" /\ probe.fn = "settlePositions"
    /\ probe.priceUp >= SETTLE_WIN_PRICE /\ probe.priceDown >= SETTLE_WIN_PRICE
    /\ positions[probe.conditionId].isSettled

DoubleWinnerSettlesAsUp ==
    DoubleWinnerSettled =>
        /\ currentCapital = probe.currentCapital
                            + probe.position.sharesUp + probe.position.arbSharesUp
        /\ totalPnL = probe.position.sharesUp + probe.position.arbSharesUp
                      - TotalCost(probe.position)

CycleTagged(id) ==
    /\ Has(positions, id)
    /\ ~InSeq(processedCycles, CycleKey(id, positions[id].endDate))
    /\ InSeq(processedCycles', CycleKey(id, positions[id].endDate))

\* The step buys the losing side for the position of id: one purchase is
\* logged, its cost is at most the per-trade ceiling and at most the capital
\* available, the pool is reduced by it and the position is marked.
ArbitrageBought(id) ==
    /\ Len(arbLog') = Len(arbLog) + 1
    /\ arbLog'[Len(arbLog')].conditionId = id
    /\ arbLog'[Len(arbLog')].cost <= PAPER_MAX_TRADE
    /\ arbLog'[Len(arbLog')].cost <= currentCapital
    /\ currentCapital' = currentCapital - arbLog'[Len(arbLog')].cost
    /\ Has(positions', id) /\ positions'[id].hasArbitragePosition

TaggedBoughtUnlessPoolShort ==
    [][ \A id \in MarketIds :
          CycleTagged(id) =>
              IF currentCapital >= PAPER_MIN_TRADE THEN ArbitrageBought(id)
              ELSE /\ arbLog' = arbLog /\ currentCapital' = currentCapital
                   /\ positions' = positions ]_vars

BuildingTick(id) == pc = "call" /\ id \in todo /\ id \notin todo'
\* The call passes the timing gate: the market has a BuildState whose
\* next-eligible-trade time has come.
EligibleTick(id) ==
    /\ BuildingTick(id)
    /\ Has(buildingPositions, id)
    /\ now >= buildingPositions[id].nextTradeTime
\* Both sides of bs have invested at least 98% of their target.
BothSidesAt98(bs) ==
    /\ bs.investedUp * 100 >= bs.targetUp * 98
    /\ bs.investedDown * 100 >= bs.targetDown * 98

\* C27: an eligible building tick that finds both sides invested to at least
\* 98% of their target multiplies both targets by 1.1 (to the cent) and keeps
\* the BuildState; no step of building removes a BuildState, whatever it has
\* invested, and no step lowers a target.
C27_TargetsGrowBuildGoesOn ==
    [][ \A id \in DOMAIN buildingPositions :
          /\ Has(buildingPositions', id)
          /\ buildingPositions'[id].targetUp >= buildingPositions[id].targetUp
          /\ buildingPositions'[id].targetDown >= buildingPositions[id].targetDown
          /\ (EligibleTick(id) /\ BothSidesAt98(buildingPositions[id])) =>
                /\ buildingPositions'[id].targetUp
                      = (buildingPositions[id].targetUp * 11) \div 10
                /\ buildingPositions'[id].targetDown
                      = (buildingPositions[id].targetDown * 11) \div 10 ]_vars

\* C27 witness: the last call found a BuildState with both sides at 98% or
\* more at an eligible time and left it with both targets raised; the
\* BuildState had been raised once before and has traded since.
C27_Witness ==
    /\ probe.fn = "buildPositionIncrementally"
    /\ Has(probe.buildingPositions, probe.conditionId)
    /\ LET before == probe.buildingPositions[probe.conditionId]
           after == buildingPositions[probe.conditionId]
       IN  /\ now >= before.nextTradeTime
           /\ BothSidesAt98(before)
           /\ after.targetUp = (before.targetUp * 11) \div 10
           /\ after.targetUp > before.targetUp
           /\ after.targetDown > before.targetDown
           /\ before.targetUp + before.targetDown
                 > (PAPER_STARTING_CAPITAL * 70) \div 100
           /\ after.lastTradeTime = now

\* What the building tick of this step paid for the UP and for the DOWN side
\* of market id (0 for a side that made no trade).
PaidUp(id) ==
    buildingPositions'[id].investedUp
        - (IF Has(buildingPositions, id) THEN buildingPositions[id].investedUp ELSE 0)
PaidDown(id) ==
    buildingPositions'[id].investedDown
        - (IF Has(buildingPositions, id) THEN buildingPositions[id].investedDown ELSE 0)

\* No BuildState has invested more than its target on either side.
InvestedWithinTargets ==
    \A id \in DOMAIN buildingPositions :
        /\ buildingPositions[id].investedUp <= buildingPositions[id].targetUp
        /\ buildingPositions[id].investedDown <= buildingPositions[id].targetDown

\* C28: in every reachable state each BuildState has investedUp <= targetUp
\* and investedDown <= targetDown; a building tick takes from the capital
\* pool exactly what its UP and DOWN trades cost, which together is never
\* more than the pool held when the tick started, and every trade it makes
\* buys at least 0.5 shares at the market's price.
C28_BuildTradesCapped ==
    /\ []InvestedWithinTargets
    /\ [][ \A id \in MarketIds :
             (BuildingTick(id) /\ Has(buildingPositions', id)) =>
                 /\ PaidUp(id) >= 0 /\ PaidDown(id) >= 0
                 /\ currentCapital' = currentCapital - (PaidUp(id) + PaidDown(id))
                 /\ PaidUp(id) + PaidDown(id) <= currentCapital
                 /\ PaidUp(id) > 0 =>
                       SharesFor(PaidUp(id), discoveredMarkets[id].priceUp) >= MIN_SHARES
                 /\ PaidDown(id) > 0 =>
                       SharesFor(PaidDown(id), discoveredMarkets[id].priceDown) >= MIN_SHARES
                 /\ totalTrades' = totalTrades + (IF PaidUp(id) > 0 THEN 1 ELSE 0)
                                               + (IF PaidDown(id) > 0 THEN 1 ELSE 0) ]_vars

\* C28 witness: the last tick traded with less capital in the pool than the
\* room left under the traded side's target and took the whole pool, and
\* the other market's BuildState has a side invested exactly to its target.
C28_Witness ==
    /\ probe.fn = "buildPositionIncrementally"
    /\ Has(probe.buildingPositions, probe.conditionId)
    /\ probe.currentCapital > 0 /\ currentCapital = 0
    /\ LET before == probe.buildingPositions[probe.conditionId]
           after == buildingPositions[probe.conditionId]
       IN  /\ after.investedUp = before.investedUp + probe.currentCapital
           /\ before.targetUp - before.investedUp > probe.currentCapital
    /\ \E id \in DOMAIN buildingPositions \ {probe.conditionId} :
          /\ buildingPositions[id].investedUp = buildingPositions[id].targetUp
          /\ buildingPositions[id].investedUp > 0

\* The building tick of this step made a trade for market id.
BuildTraded(id) ==
    /\ BuildingTick(id) /\ Has(buildingPositions', id)
    /\ PaidUp(id) + PaidDown(id) > 0

\* C29: a building tick that comes before the BuildState's next-eligible
\* time changes nothing and trades nothing; every tick that passes the gate
\* (the tick that creates the BuildState included, and whether or not it
\* trades) records its own time and sets the next-eligible time 2 s to 60 s
\* after it; a tick that trades comes at least 2 s after the tick recorded
\* before it.
C29_TradesKeepTheirGap ==
    [][ \A id \in MarketIds :
          BuildingTick(id) =>
              /\ (Has(buildingPositions, id) /\ now < buildingPositions[id].nextTradeTime) =>
                    /\ buildingPositions' = buildingPositions
                    /\ currentCapital' = currentCapital
                    /\ totalTrades' = totalTrades
              /\ (Has(buildingPositions', id)
                     /\ (Has(buildingPositions, id) => EligibleTick(id))) =>
                    /\ buildingPositions'[id].lastTradeTime = now
                    /\ buildingPositions'[id].nextTradeTime >= now + 2
                    /\ buildingPositions'[id].nextTradeTime <= now + 60
              /\ (BuildTraded(id) /\ Has(buildingPositions, id)
                     /\ buildingPositions[id].lastTradeTime > 0) =>
                    now >= buildingPositions[id].lastTradeTime + 2 ]_vars

\* C29 witness: the last call came 1 s after a tick that had drawn the
\* shortest gap, found capital in the pool and a side short of its target,
\* and returned at the gate; the other market's BuildState drew the longest
\* gap.
C29_Witness ==
    /\ probe.fn = "buildPositionIncrementally"
    /\ Has(probe.buildingPositions, probe.conditionId)
    /\ LET before == probe.buildingPositions[probe.conditionId]
       IN  /\ now = before.lastTradeTime + 1
           /\ before.nextTradeTime = before.lastTradeTime + 2
           /\ ~BothSidesAt98(before)
           /\ currentCapital > 0
           /\ currentCapital = probe.currentCapital
           /\ buildingPositions = probe.buildingPositions
    /\ \E id \in DOMAIN buildingPositions \ {probe.conditionId} :
          buildingPositions[id].nextTradeTime = buildingPositions[id].lastTradeTime + 60

\* The loop is inside one of the handlers that change the capital pool.
InsideHandler == probe.fn = "suspended" /\ pc \in {"logUp", "logDown", "logArb", "fetch"}
\* This step is one of the loop's own synchronous blocks that may change the
\* pool: a build call up to its UP trade, its DOWN trade, an arbitrage
\* purchase, a settlement.
CapitalBlock ==
    \/ pc = "process" /\ pc' \in {"logUp", "logArb"}
    \/ pc = "logUp" /\ pc' = "logDown"
    \/ pc \in {"settle", "fetch"} /\ pc' = "settle"
\* The build call that ends in this step leaves what one uninterrupted run
\* from the state at its start could have left.
EndsAsUninterrupted ==
    LET id == probe.conditionId
    IN  \E b \in buildPositionIncrementallyDrawing(id, discoveredMarkets[id],
                     probe.start.buildingPositions,
                     probe.start.positions, probe.start.currentCapital,
                     probe.start.totalTrades, probe.start.now,
                     NextTradeTimesTried(probe.start.now)) :
            /\ b.buildingPositions[id] = buildingPositions'[id]
            /\ b.currentCapital = currentCapital'
            /\ b.totalTrades = totalTrades'

\* C30: the capital pool is changed only by the loop's own synchronous
\* blocks, each of which tests and updates the pool in one piece: the clock,
\* the purge timers and the price callbacks that run while the loop is
\* suspended leave it alone, so that a handler that goes on after an await
\* finds the pool exactly as it left it, the pool never goes below zero, and
\* a build call cut in three by its awaits ends as an uninterrupted run would.
C30_CapitalOnlyChangedInOnePiece ==
    /\ [](InsideHandler => currentCapital = probe.left)
    /\ [](currentCapital >= 0)
    /\ [][ /\ currentCapital' # currentCapital => CapitalBlock
           /\ (pc = "logDown" /\ pc' = "process") => EndsAsUninterrupted ]_vars

\* C30 witness: a build call made its UP trade, a purge timer ran and the
\* clock moved while that trade was written, and the call then made its DOWN
\* trade and stands at its second await.
C30_Witness ==
    /\ pc = "logDown" /\ probe.fn = "suspended" /\ probe.awaiting
    /\ probe.handler = "buildPositionIncrementally"
    /\ Has(probe.start.positions, "p1") /\ ~Has(positions, "p1")
    /\ now > probe.start.now
    /\ LET before == probe.start.buildingPositions[probe.conditionId]
           after == buildingPositions[probe.conditionId]
       IN  /\ after.investedUp > before.investedUp
           /\ after.investedDown > before.investedDown
    /\ currentCapital < probe.start.currentCapital

\* The 5 s delta feature entrySignal tests for a side.
SideDelta(side) == IF side = "UP" THEN "delta_5s_side_px" ELSE "delta_5s_down_px"
\* The entrySignal call under study returned a trade under momentum or
\* reversion mode.
ModeTradeReturned ==
    /\ probe.fn = "entrySignal" /\ pc = "returned"
    /\ probe.entryParams.defined
    /\ probe.entryParams.mode \in {"momentum", "reversion"}
    /\ probe.signal.should_trade

AbsentDeltaReadAsZero ==
    (probe.fn = "entrySignal" /\ pc = "returned" /\ probe.entryParams.defined
        /\ probe.entryParams.mode \in {"momentum", "reversion"}
        /\ "delta_5s_side_px" \notin DOMAIN probe.features
        /\ "delta_5s_down_px" \notin DOMAIN probe.features) =>
        (probe.signal.should_trade <=>
            /\ probe.entryParams.momentum_threshold <= 0
            /\ \/ InBand(probe.state.up_px, probe.entryParams.up_price_min,
                         probe.entryParams.up_price_max)
               \/ InBand(probe.state.down_px, probe.entryParams.down_price_min,
                         probe.entryParams.down_price_max))

IsUpperMedian(v, table) ==
    LET n == Cardinality(DOMAIN table)
    IN  /\ \E k \in DOMAIN table : table[k] = v
        /\ Cardinality({ k \in DOMAIN table : table[k] < v }) <= n \div 2
        /\ Cardinality({ k \in DOMAIN table : table[k] <= v }) > n \div 2

\* C32: sizeForTrade with a table that is not empty looks a price below the
\* first edge up in the first bin and a price above the last edge in the
\* last bin; when the table has no entry under the key of the bin it selected
\* it returns the upper median of the table's values (rounded to 4 decimals,
\* as every size it returns); the call leaves the table as it was.
C32_OutsideBinsAndMedianFallback ==
    /\ [](( probe.fn = "sizeForTrade" /\ pc = "returned" /\ probe.sizeParams.defined
            /\ DOMAIN probe.sizeParams.size_table # {} ) =>
          LET edges == probe.sizeParams.bin_edges
              table == probe.sizeParams.size_table
              last == Len(edges) - 1
              bin == IF LookedUpPrice < edges[1] THEN 1
                     ELSE IF LookedUpPrice > edges[Len(edges)] THEN last
                     ELSE BucketIndex(LookedUpPrice, edges)
              key == BucketKey(edges, bin)
          IN  IF key \in DOMAIN table
              THEN probe.size = ToFixed4(table[key])
              ELSE \E v \in { table[k] : k \in DOMAIN table } :
                      IsUpperMedian(v, table) /\ probe.size = ToFixed4(v))
    /\ [][ probe.fn = "sizeForTrade" => probe'.sizeParams = probe.sizeParams ]_vars

\* C32 witness: a price above the last edge was looked up in a table of two
\* different sizes that has no entry under the last bin's key, and the
\* larger of the two was returned.
C32_Witness ==
    /\ probe.fn = "sizeForTrade" /\ pc = "returned" /\ probe.sizeParams.defined
    /\ LET edges == probe.sizeParams.bin_edges
           table == probe.sizeParams.size_table
       IN  /\ LookedUpPrice > edges[Len(edges)]
           /\ Cardinality(DOMAIN table) = 2
           /\ BucketKey(edges, Len(edges) - 1) \notin DOMAIN table
           /\ \E k \in DOMAIN table : \E j \in DOMAIN table :
                 table[j] < table[k] /\ probe.size = ToFixed4(table[k])
                 /\ probe.size # ToFixed4(table[j])

\* A returned inventoryOkAndRebalance call with both sides held (> 1e-6).
BothHeldReturned ==
    /\ probe.fn = "inventoryOkAndRebalance" /\ pc = "returned"
    /\ probe.inventoryParams.defined
    /\ probe.inventory.inv_up_shares > InventoryEps
    /\ probe.inventory.inv_down_shares > InventoryEps

\* UP / (UP + DOWN) > R and < 1 - R of the call, R in hundredths.
UpHeavy == probe.inventory.inv_up_shares * 100 > probe.inventoryParams.rebalance_ratio_R * (probe.inventory.inv_up_shares + probe.inventory.inv_down_shares)
DownHeavy == probe.inventory.inv_up_shares * 100 < (100 - probe.inventoryParams.rebalance_ratio_R) * (probe.inventory.inv_up_shares + probe.inventory.inv_down_shares)

\* The three "never" parts of C33.
NeverAgainstCaps ==
    LET inv == probe.inventory
        caps == probe.inventoryParams
    IN  /\ (UpHeavy /\ probe.proposedSide = "UP") => probe.side # "UP"
        /\ (DownHeavy /\ probe.proposedSide = "DOWN") => probe.side # "DOWN"
        /\ probe.side = "UP" => inv.inv_up_shares < caps.max_up_shares
        /\ probe.side = "DOWN" => inv.inv_down_shares < caps.max_down_shares
        /\ inv.inv_up_shares + inv.inv_down_shares >= caps.max_total_shares => probe.side = "null"

\* C33 as stated: with both sides held, UP-ratio > R and UP proposed, the
\* result is DOWN when DOWN is below its cap and the total below the total
\* cap, otherwise no side; symmetrically for UP-ratio < 1 - R and DOWN
\* proposed; the skewed side, a side at its cap, or any side at the total cap
\* is never returned.
C33_AsStated ==
    BothHeldReturned =>
        LET inv == probe.inventory
            caps == probe.inventoryParams
            total == inv.inv_up_shares + inv.inv_down_shares
        IN  /\ (UpHeavy /\ probe.proposedSide = "UP") =>
                  probe.side = IF inv.inv_down_shares < caps.max_down_shares
                                  /\ total < caps.max_total_shares
                               THEN "DOWN" ELSE "null"
            /\ (DownHeavy /\ probe.proposedSide = "DOWN") =>
                  probe.side = IF inv.inv_up_shares < caps.max_up_shares
                                  /\ total < caps.max_total_shares
                               THEN "UP" ELSE "null"
            /\ NeverAgainstCaps

\* C33 amended: with both sides held, UP-ratio > R and UP proposed, the
\* result is DOWN when UP, the proposed side, is below its own cap, DOWN is
\* below its cap and the total is below the total cap, otherwise no side;
\* symmetrically for UP-ratio < 1 - R and DOWN proposed; the skewed side, a
\* side at its cap, or any side at the total cap is never returned.
C33_SwitchOnlyBelowOwnCap ==
    BothHeldReturned =>
        LET inv == probe.inventory
            caps == probe.inventoryParams
            total == inv.inv_up_shares + inv.inv_down_shares
        IN  /\ (UpHeavy /\ probe.proposedSide = "UP") =>
                  probe.side = IF inv.inv_up_shares < caps.max_up_shares
                                  /\ inv.inv_down_shares < caps.max_down_shares
                                  /\ total < caps.max_total_shares
                               THEN "DOWN" ELSE "null"
            /\ (DownHeavy /\ probe.proposedSide = "DOWN") =>
                  probe.side = IF inv.inv_down_shares < caps.max_down_shares
                                  /\ inv.inv_up_shares < caps.max_up_shares
                                  /\ total < caps.max_total_shares
                               THEN "UP" ELSE "null"
            /\ NeverAgainstCaps

\* C33 witness: UP was proposed with UP at its cap and above the ratio, DOWN
\* held below its cap and the total below the total cap, and no side was
\* returned.
C33_Witness ==
    /\ BothHeldReturned /\ UpHeavy /\ probe.proposedSide = "UP"
    /\ probe.inventory.inv_up_shares >= probe.inventoryParams.max_up_shares
    /\ probe.inventory.inv_down_shares < probe.inventoryParams.max_down_shares
    /\ probe.inventory.inv_up_shares + probe.inventory.inv_down_shares < probe.inventoryParams.max_total_shares
    /\ probe.side = "null"

\* The position's fields other than its two current prices.
Accounting(position) == [ f \in DOMAIN position \ {"currentPriceUp", "currentPriceDown"} |-> position[f] ]

\* C34: a price fetch that failed (null) is no update: after updatePrices
\* the market's stored price of that side and the position's current price
\* of that side are what they were, and the call changes no capital, no
\* BuildState and no accounting field of a Position.
C34_NullFetchIsNoUpdate ==
    (probe.fn = "updatePrices" /\ pc = "returned") =>
        /\ \A id \in DOMAIN probe.discoveredMarkets :
              /\ probe.fetched[id][1] = 0 =>
                    /\ discoveredMarkets[id].priceUp = probe.discoveredMarkets[id].priceUp
                    /\ Has(probe.positions, id) =>
                          positions[id].currentPriceUp = probe.positions[id].currentPriceUp
              /\ probe.fetched[id][2] = 0 =>
                    /\ discoveredMarkets[id].priceDown = probe.discoveredMarkets[id].priceDown
                    /\ Has(probe.positions, id) =>
                          positions[id].currentPriceDown = probe.positions[id].currentPriceDown
        /\ DOMAIN discoveredMarkets = DOMAIN probe.discoveredMarkets
        /\ DOMAIN positions = DOMAIN probe.positions
        /\ \A id \in DOMAIN positions : Accounting(positions[id]) = Accounting(probe.positions[id])
        /\ buildingPositions = probe.buildingPositions
        /\ currentCapital = probe.currentCapital
        /\ totalPnL = probe.totalPnL /\ totalTrades = probe.totalTrades

\* C34 witness: the UP fetch of the held position's market failed and its
\* DOWN fetch answered: the market and the position show the new DOWN price
\* next to the UP price they had.
C34_Witness ==
    /\ probe.fn = "updatePrices" /\ pc = "returned"
    /\ probe.fetched["p1"] = <<0, 5000>>
    /\ discoveredMarkets["p1"].priceUp = 9500 /\ discoveredMarkets["p1"].priceDown = 5000
    /\ positions["p1"].currentPriceUp = probe.positions["p1"].currentPriceUp
    /\ positions["p1"].currentPriceUp # 0
    /\ positions["p1"].currentPriceDown = 5000
    /\ probe.positions["p1"].currentPriceDown # 5000

\* The parts of the second row's notes are an uppercase WATCH: or PAPER: tag,
\* a side UP or DOWN, a share count, "shares @ $" and a price, blanks between
\* them (none needed after the tag, none allowed after the $).
TagSideSharesPrice(p, numbers) ==
    /\ p.tag \in {"WATCH:", "PAPER:"} /\ p.side \in {"UP", "DOWN"} /\ p.sp1 >= 1
    /\ p.shares \in numbers /\ p.sp2 >= 1 /\ p.word = "shares" /\ p.sp3 >= 1
    /\ p.at = "@" /\ p.sp4 >= 1 /\ p.dollar = "$" /\ p.sp5 = 0 /\ p.price \in numbers

\* The row was counted in neither total: the totals are those of the first,
\* well-formed WATCH row alone.
CountedInNeither == probe.stats["BTC_15m"].watch_total = 1 /\ probe.stats["BTC_15m"].paper_total = 0

\* C35 as stated: a row is a trade for parity matching iff its notes hold an
\* uppercase WATCH: or PAPER: tag followed by a side UP or DOWN, a share
\* count, 'shares @ $' and a price; any other row yields null and is counted
\* in neither watch_total nor paper_total.
C35_AsStated ==
    (probe.fn = "parseTrade" /\ pc = "returned") =>
        /\ probe.trade # << >> <=> TagSideSharesPrice(probe.parts, {"12.5", "0.23"})
        /\ ~TagSideSharesPrice(probe.parts, {"12.5", "0.23"}) => CountedInNeither

\* What holds instead: the row is a trade iff the places of the share count
\* and of the price hold a run of digits and dots, number or not; every
\* other row yields null and is counted in neither total.
TradeIffDigitDotRuns ==
    (probe.fn = "parseTrade" /\ pc = "returned") =>
        /\ probe.trade # << >> <=> TagSideSharesPrice(probe.parts, DigitDotRuns)
        /\ probe.trade = << >> => CountedInNeither
        /\ probe.trade # << >> =>
              probe.stats["BTC_15m"].watch_total + probe.stats["BTC_15m"].paper_total = 2

\* C35 failure: the notes "WATCH: UP . shares @ $0.23", which hold no share
\* count, were parsed to a trade with NaN shares and counted in watch_total.
C35_TradeWithoutShareCount ==
    /\ probe.fn = "parseTrade" /\ pc = "returned"
    /\ probe.parts = [WellFormedParts EXCEPT !.shares = "."]
    /\ probe.trade # << >> /\ probe.trade[1].shares.nan
    /\ probe.stats["BTC_15m"].watch_total = 2

\* Capital pool plus what is tied up: the invested amounts of all BuildStates
\* and the total cost (build and arbitrage) of all unsettled Positions.
Ledger ==
    currentCapital
    + SumOver([ id \in DOMAIN buildingPositions |->
                  buildingPositions[id].investedUp + buildingPositions[id].investedDown ],
              DOMAIN buildingPositions)
    + SumOver([ id \in DOMAIN positions |-> TotalCost(positions[id]) ],
              { id \in DOMAIN positions : ~positions[id].isSettled })

\* C36 as stated: in every reachable state capital pool + invested amounts of
\* all BuildStates + total cost of all unsettled Positions = starting capital
\* + total realized P&L.
C36_AsStated == Ledger = PAPER_STARTING_CAPITAL + totalPnL

\* What holds instead: the books are never over, and they fall short only in
\* a cleanup sweep, by the arbitrage cost of the positions the sweep removes.
LedgerShortOnlyBySweep ==
    /\ [](Ledger <= PAPER_STARTING_CAPITAL + totalPnL)
    /\ [][ (Ledger' - totalPnL') = (Ledger - totalPnL)
                - (IF CleanupSweep THEN StaleReserved - StaleBuildCost ELSE 0) ]_vars

\* C36 failure: the books are short of starting capital plus realized P&L.
C36_BooksShort == Ledger < PAPER_STARTING_CAPITAL + totalPnL

\* The amount this step takes from the pool.
Deducted == currentCapital - currentCapital'

\* C37: the capital pool is never negative: no build trade and no arbitrage
\* purchase takes more from the pool than it holds at the moment of the
\* deduction, the DOWN trade that follows an UP trade of the same tick
\* included.
C37_PoolNeverOverdrawn ==
    /\ [](currentCapital >= 0)
    /\ [][ /\ Deducted <= currentCapital
           /\ (pc = "process" /\ pc' = "logArb" /\ Deducted > 0) =>
                  Deducted = Min(currentCapital, PAPER_MAX_TRADE)
           /\ (pc = "logUp" /\ pc' = "logDown" /\ Deducted > 0) =>
                  /\ Deducted = probe.trades.tradeDown
                  /\ probe.start.currentCapital - currentCapital' <= probe.start.currentCapital ]_vars

\* C37 witness: a build tick made its UP and its DOWN trade, and the
\* arbitrage purchase that followed took what was left, less than
\* PAPER_MAX_TRADE, leaving the pool at zero.
C37_Witness ==
    /\ pc = "logArb" /\ probe.fn = "suspended" /\ probe.handler = "executeArbitrageTrade"
    /\ currentCapital = 0 /\ probe.start.currentCapital > 0
    /\ Len(arbLog) = 1 /\ arbLog[1].cost = probe.start.currentCapital
    /\ arbLog[1].cost < PAPER_MAX_TRADE
    /\ \E id \in DOMAIN buildingPositions :
          /\ buildingPositions[id].tradeCount = 2
          /\ buildingPositions[id].investedUp > 0 /\ buildingPositions[id].investedDown > 0
          /\ buildingPositions[id].investedUp + buildingPositions[id].investedDown + arbLog[1].cost = PAPER_STARTING_CAPITAL

\* The positions this step settles.
NewlySettled == { id \in DOMAIN positions \cap DOMAIN positions' : ~positions[id].isSettled /\ positions'[id].isSettled }
\* The positions this step creates (finalization).
NewlyHeld == DOMAIN positions' \ DOMAIN positions

KnownExpiry(id) == Has(discoveredMarkets, id) /\ discoveredMarkets[id].endDate # 0

\* A cleanup sweep has just run.
JustSwept == pc = "proactive" /\ lastCleanupTime = now

\* C39: under a fair main loop and an advancing clock every Position
\* eventually leaves the active set (settled and purged, or removed by the
\* sweep) and every BuildState of a market with a known expiry eventually
\* leaves the building set (finalized or purged), unless the loop is stopped
\* first; a sweep leaves behind no BuildState whose market is gone or more
\* than 60 s past expiry and no unsettled Position more than 60 s past expiry.
C39_EntriesWithExpiryLeave ==
    /\ [](JustSwept =>
            /\ \A id \in DOMAIN buildingPositions :
                  Has(discoveredMarkets, id) /\ ~PastGrace(discoveredMarkets[id].endDate)
            /\ \A id \in DOMAIN positions :
                  positions[id].isSettled \/ ~PastGrace(positions[id].endDate))
    /\ \A id \in MarketIds :
          Has(positions, id) ~> (~Has(positions, id) \/ ~isRunning)
    /\ \A id \in MarketIds :
          (Has(buildingPositions, id) /\ KnownExpiry(id))
              ~> (~Has(buildingPositions, id) \/ ~isRunning)

\* C39 witness: the loop is running, trades were made, a position was
\* settled, and both maps are empty again after a sweep past the grace period.
C39_Witness ==
    /\ JustSwept /\ isRunning
    /\ totalTrades > 0 /\ totalCycles > 0
    /\ positions = EmptyMap /\ buildingPositions = EmptyMap
    /\ \E e \in EndDates : now - e > EXPIRED_THRESHOLD_MS

\* Rows of the CSV file written for a trade key.
RowsOf(tradeKey) == Cardinality({ i \in DOMAIN probe.csv : probe.csv[i] = tradeKey })

\* C40 as stated: logTrade writes a trade with a given key at most once, also
\* when calls for the same key overlap; a failed write does not mark the key
\* as logged.
C40_AsStated ==
    probe.fn = "logTrade" =>
        /\ \A k \in TradeKeysTried : RowsOf(k) <= 1
        /\ \A k \in probe.loggedTrades : RowsOf(k) >= 1

\* What holds instead: a key is marked exactly when a row was written for it,
\* so a failed write does not mark it; a call that starts after the key was
\* marked writes nothing; and a key has as many rows as there were calls for
\* it that had passed the test before the first of them wrote.
OncePerCallPastTheTest ==
    /\ [](probe.fn = "logTrade" =>
            /\ probe.loggedTrades = { probe.csv[i] : i \in DOMAIN probe.csv }
            /\ \A k \in TradeKeysTried :
                  RowsOf(k) = Cardinality({ c \in DOMAIN probe.calls :
                                   probe.calls[c].tradeKey = k /\ probe.calls[c].at = "written" }))
    /\ [][ probe.fn = "logTrade" =>
             \A c \in DOMAIN probe.calls :
                (probe.calls[c].at = "start" /\ probe.calls[c].tradeKey \in probe.loggedTrades) =>
                    probe'.calls[c].at \in {"start", "returned"} ]_vars

\* C40 failure: two calls for the same key had both passed the test of
\* loggedTrades before either wrote, and the CSV holds the trade twice.
C40_WrittenTwice ==
    /\ probe.fn = "logTrade"
    /\ \E c \in DOMAIN probe.calls : \E d \in DOMAIN probe.calls \ {c} :
          /\ probe.calls[c].tradeKey = probe.calls[d].tradeKey
          /\ probe.calls[c].at = "written" /\ probe.calls[d].at = "written"
          /\ RowsOf(probe.calls[c].tradeKey) = 2

====
